---- MODULE Spec2Model ----
(***************************************************************************)
(* Model of utils/retry.py: the retry decorator, wait_until, poll_until    *)
(* and their asyncio counterparts.                                         *)
(*                                                                         *)
(* One call is modelled at a time.  The caller-supplied collaborators (the *)
(* wrapped function, the on_retry observer, the condition, the producer    *)
(* fn, the clock) are the environment: each of their invocations picks its *)
(* outcome nondeterministically, and the history variables record what     *)
(* they did so that the properties can speak about it.                     *)
(*                                                                         *)
(* Durations of the retry decorator are exact rationals <<num, den>>;      *)
(* times of the polling primitives are integer clock ticks.                *)
(***************************************************************************)
EXTENDS Integers, Sequences, FiniteSets, TLC

VARIABLES
    callee,         \* which primitive of utils/retry.py this behaviour calls
    pc,             \* position of the call inside the primitive's body
    result,         \* how the call ended: returned value or raised fault
    sleeps,         \* durations handed to time.sleep / asyncio.sleep, in order
    inv,            \* number of invocations started so far
    \* ---- retry(times, delay, backoff, exceptions, on_retry) ----
    times, delay, backoff, exceptions, on_retry,
    attempt,        \* loop variable of "for attempt in range(1, times + 1)"
    current_delay,  \* local of wrapper
    last_exc,       \* local of wrapper
    outcomes,       \* outcome of each invocation of func, in order
    observed,       \* arguments of each on_retry invocation, in order
    \* ---- wait_until / poll_until / async_wait_until / async_poll_until ----
    timeout, interval, message,
    accept,         \* the values v for which condition(v) is true (poll)
    condAsync,      \* condition is an "async def": calling it gives a coroutine
    fnAsync,        \* fn is an "async def"
    simulated,      \* the clock advances only during suspensions
    now,            \* time.monotonic() / loop.time(), in ticks
    ticks,          \* ticks that passed outside suspensions
    start,          \* the clock reading the deadline was computed from
    deadline,       \* local of the primitive
    last_result,    \* local of poll_until / async_poll_until
    produced,       \* outcome of each completed fn() call, in order
    tested,         \* outcome of each completed condition call, in order
    reads,          \* the clock readings of the loop tests, in order
    cancelled,      \* the scheduler has cancelled the task of the call
    \* ---- ApiClient(raise_on_error=...)._request / ._arequest ----
    raise_on_error_arg, \* the constructor argument: "omitted", "True", "False"
    raise_on_error,     \* self.raise_on_error
    method,             \* the HTTP method of the request
    status_code,        \* response.status_code of the response httpx returned
    \* ---- several calls in flight at once ----
    threads,            \* the locals of the call each thread is making
    loop,               \* the asyncio event loop: running task, ready queue
    \* ---- assert_unique(data, key) of utils/assertions.py ----
    values,             \* [item[key] for item in data]
    duplicates,         \* local of assert_unique
    \* ---- what the previous call of the decorated function left behind ----
    earlier             \* its attempt and current_delay when it ended

retryCfg   == <<times, delay, backoff, exceptions, on_retry>>
retryLocal == <<attempt, current_delay, last_exc, outcomes, observed>>
pollCfg    == <<timeout, interval, message, accept, condAsync, fnAsync,
                simulated>>
clock      == <<now, ticks>>
pollLocal  == <<start, deadline, last_result, produced, tested>>
pollHist   == <<reads, cancelled>>
apiVars    == <<raise_on_error_arg, raise_on_error, method, status_code>>
uniq       == <<values, duplicates>>
vars == <<callee, pc, result, sleeps, inv, retryCfg, retryLocal,
          pollCfg, clock, pollLocal, pollHist, apiVars, threads, loop, uniq,
          earlier>>

----------------------------------------------------------------------------
(* Bounds of the model *)
MaxTimes       == 4     \* largest configured number of attempts
MaxDelay       == 1     \* largest configured base delay
MaxValue       == 3     \* return values are 1..MaxValue
MaxInvocations == 2     \* invocations of one decorated function
MaxTimeout     == 3     \* largest configured timeout, in ticks
MaxInterval    == 2     \* largest configured poll interval, in ticks
MaxStart       == 1     \* latest clock reading at which a call begins
MaxTicks       == 2     \* ticks a real clock advances outside suspensions

----------------------------------------------------------------------------
(* Values and faults *)

\* Python's None among the integer values of the model
NoneVal == 0
Values  == 1..MaxValue

\* The exception classes the model distinguishes, with Python's hierarchy:
\* BaseException > Exception > {ValueError, TimeoutError, TypeError},
\* BaseException > KeyboardInterrupt, BaseException > CancelledError.
ExceptionSubclasses == {"ValueError", "TimeoutError", "TypeError"}
BaseOnlyClasses     == {"KeyboardInterrupt", "CancelledError"}

\* issubclass(kind, cls)
IsSubclass(kind, cls) ==
    \/ kind = cls
    \/ cls = "BaseException"
    \/ cls = "Exception" /\ kind \in ExceptionSubclasses

\* "except exceptions as exc": does the clause catch a fault of this kind
Catches(excs, kind) == \E cls \in excs : IsSubclass(kind, cls)

\* a fault object: its class, and its identity (who raised it, at which
\* attempt / evaluation); message holds what a TimeoutError was built with
NoText == [message |-> "", seconds |-> 0, last |-> ""]
Fault(kind, by, at) == [kind |-> kind, by |-> by, at |-> at, text |-> NoText]
NoFault == Fault("None", "nobody", 0)

\* how a call ended
NoResult      == [status |-> "none", value |-> NoneVal, exc |-> NoFault]
Returned(v)   == [status |-> "returned", value |-> v, exc |-> NoFault]
Raised(f)     == [status |-> "raised", value |-> NoneVal, exc |-> f]

\* exact rationals <<num, den>>, den > 0
Rat(n)     == <<n, 1>>
Mul(a, b)  == <<a[1] * b[1], a[2] * b[2]>>
RatEq(a, b) == a[1] * b[2] = b[1] * a[2]
RECURSIVE RatPow(_, _)
RatPow(b, k) == IF k = 0 THEN Rat(1) ELSE Mul(b, RatPow(b, k - 1))

----------------------------------------------------------------------------
(* wait_until, poll_until and the asyncio variants: configurations *)

Waits  == {"wait_until", "async_wait_until"}
Polls  == {"poll_until", "async_poll_until"}
Asyncs == {"async_wait_until", "async_poll_until"}

\* default of the parameter "message" of each primitive
DefaultMessage(c) ==
    CASE c = "wait_until"       -> "Condition not met"
      [] c = "poll_until"       -> "Polling condition not met"
      [] c = "async_wait_until" -> "Async condition not met"
      [] c = "async_poll_until" -> "Async polling condition not met"
      [] OTHER                  -> ""

\* str(value), as the f-string of the TimeoutError renders last_result
Str(v) == IF v = NoneVal THEN "None" ELSE ToString(v)

\* locals of a polling primitive that is not running
PollIdle ==
    /\ timeout = 0 /\ interval = 0 /\ message = ""
    /\ accept = {} /\ condAsync = FALSE /\ fnAsync = FALSE
    /\ simulated = TRUE
    /\ now = 0 /\ ticks = 0
    /\ start = 0 /\ deadline = 0 /\ last_result = NoneVal
    /\ produced = <<>> /\ tested = <<>>
    /\ reads = <<>> /\ cancelled = FALSE

\* an ApiClient that takes no part in the behaviour
ApiIdle ==
    /\ raise_on_error_arg = "omitted" /\ raise_on_error = FALSE
    /\ method = "" /\ status_code = 0

----------------------------------------------------------------------------
(* retry: the configurations and the environment *)

\* variant of DefaultExceptions: the default catches BaseException
DefaultExceptions_Base == {"BaseException"}

\* default of the parameter: exceptions: tuple = (Exception,)
DefaultExceptions == {"Exception"}
ExceptionSets == {DefaultExceptions, {"TimeoutError"}, {"BaseException"}}

\* the kinds of fault the wrapped function raises in the model
FuncFaultKinds == {"TimeoutError", "ValueError", "KeyboardInterrupt"}

\* backoff factors 1, 2, 3/2 and 1/2
Backoffs == {<<1, 1>>, <<2, 1>>, <<3, 2>>, <<1, 2>>}

\* no call of the decorated function has ended yet
NoEarlier == [attempt |-> 0, current_delay |-> Rat(0)]

\* on_retry: None, or a callback
Observers == {"None", "callback"}

RetryIdle ==
    /\ attempt = 0
    /\ current_delay = Rat(0)
    /\ last_exc = NoFault
    /\ outcomes = <<>>
    /\ observed = <<>>

\* retry(...)(func): the decorated function, not yet called
RetryInit ==
    /\ callee = "retry"
    /\ times \in -1..MaxTimes
    /\ delay \in {Rat(d) : d \in 0..MaxDelay}
    /\ backoff \in Backoffs
    /\ exceptions \in ExceptionSets
    /\ on_retry \in Observers
    /\ RetryIdle
    /\ PollIdle
    /\ ApiIdle

\* variant of RetryStart: current_delay is kept from one call to the next
RetryStart_KeepDelay ==
    /\ callee = "retry"
    /\ pc \in {"idle", "done"}
    /\ inv < MaxInvocations
    /\ inv' = inv + 1
    /\ earlier' = IF pc = "done"
                      THEN [attempt |-> attempt,
                            current_delay |-> current_delay]
                      ELSE earlier
    /\ current_delay' = IF pc = "done" THEN current_delay ELSE delay
    /\ last_exc' = NoFault
    /\ outcomes' = <<>>
    /\ observed' = <<>>
    /\ sleeps' = <<>>
    /\ result' = NoResult
    /\ IF times >= 1
          THEN attempt' = 1 /\ pc' = "call"
          ELSE attempt' = 0 /\ pc' = "raise"
    /\ UNCHANGED <<pollCfg, clock, pollLocal, pollHist, apiVars, threads,
                   loop, uniq>>
    /\ UNCHANGED <<callee, retryCfg>>

\* wrapper(*args, **kwargs) is entered: lines 59-61
RetryStart ==
    /\ callee = "retry"
    /\ pc \in {"idle", "done"}
    /\ inv < MaxInvocations
    /\ inv' = inv + 1
    /\ earlier' = IF pc = "done"
                      THEN [attempt |-> attempt,
                            current_delay |-> current_delay]
                      ELSE earlier
    /\ current_delay' = delay
    /\ last_exc' = NoFault
    /\ outcomes' = <<>>
    /\ observed' = <<>>
    /\ sleeps' = <<>>
    /\ result' = NoResult
    /\ IF times >= 1
          THEN attempt' = 1 /\ pc' = "call"
          ELSE attempt' = 0 /\ pc' = "raise"
    /\ UNCHANGED <<pollCfg, clock, pollLocal, pollHist, apiVars, threads,
                   loop, uniq>>
    /\ UNCHANGED <<callee, retryCfg>>

\* variant of AfterCaught: the observer is passed over
AfterCaught_SkipObserver(k) ==
    IF k = times THEN "raise"
    ELSE "sleep"

\* variant of AfterCaught: the last attempt is not recognised ("attempt > times")
AfterCaught_NoBreak(k) ==
    IF k > times THEN "raise"
    ELSE IF on_retry # "None" THEN "observe"
    ELSE "sleep"

\* where the except clause goes after "last_exc = exc": lines 66-74
AfterCaught(k) ==
    IF k = times THEN "raise"
    ELSE IF on_retry # "None" THEN "observe"
    ELSE "sleep"

\* variant of RetryCallReturns: the value is kept and the loop goes on
RetryCallReturns_KeepGoing ==
    /\ callee = "retry" /\ pc = "call"
    /\ \E v \in Values :
         /\ outcomes' = Append(outcomes, Returned(v))
         /\ result' = Returned(v)
    /\ IF attempt < times
          THEN attempt' = attempt + 1 /\ pc' = "call"
          ELSE attempt' = attempt /\ pc' = "done"
    /\ UNCHANGED <<pollCfg, clock, pollLocal, pollHist, apiVars, threads,
                   loop, uniq, earlier>>
    /\ UNCHANGED <<callee, sleeps, inv, retryCfg, current_delay,
                   last_exc, observed>>

\* return func(*args, **kwargs) returns a value: line 63
RetryCallReturns ==
    /\ callee = "retry" /\ pc = "call"
    /\ \E v \in Values :
         /\ outcomes' = Append(outcomes, Returned(v))
         /\ result' = Returned(v)
    /\ pc' = "done"
    /\ UNCHANGED <<pollCfg, clock, pollLocal, pollHist, apiVars, threads,
                   loop, uniq, earlier>>
    /\ UNCHANGED <<callee, sleeps, inv, retryCfg, attempt, current_delay,
                   last_exc, observed>>

\* variant of RetryCallRaises: the first caught fault is kept in last_exc
RetryCallRaises_KeepFirst ==
    /\ callee = "retry" /\ pc = "call"
    /\ \E kind \in FuncFaultKinds :
         LET exc == Fault(kind, "func", attempt) IN
         /\ outcomes' = Append(outcomes, Raised(exc))
         /\ IF Catches(exceptions, kind)
               THEN /\ last_exc' = IF last_exc = NoFault THEN exc ELSE last_exc
                    /\ pc' = AfterCaught(attempt)
                    /\ result' = result
               ELSE /\ last_exc' = last_exc
                    /\ pc' = "done"
                    /\ result' = Raised(exc)
    /\ UNCHANGED <<pollCfg, clock, pollLocal, pollHist, apiVars, threads,
                   loop, uniq, earlier>>
    /\ UNCHANGED <<callee, sleeps, inv, retryCfg, attempt, current_delay,
                   observed>>

\* variant of RetryCallRaises: a bare "except:" that catches every fault
RetryCallRaises_BareExcept ==
    /\ callee = "retry" /\ pc = "call"
    /\ \E kind \in FuncFaultKinds :
         LET exc == Fault(kind, "func", attempt) IN
         /\ outcomes' = Append(outcomes, Raised(exc))
         /\ last_exc' = exc
         /\ pc' = AfterCaught(attempt)
         /\ result' = result
    /\ UNCHANGED <<pollCfg, clock, pollLocal, pollHist, apiVars, threads,
                   loop, uniq, earlier>>
    /\ UNCHANGED <<callee, sleeps, inv, retryCfg, attempt, current_delay,
                   observed>>

\* func raises: lines 63-67
RetryCallRaises ==
    /\ callee = "retry" /\ pc = "call"
    /\ \E kind \in FuncFaultKinds :
         LET exc == Fault(kind, "func", attempt) IN
         /\ outcomes' = Append(outcomes, Raised(exc))
         /\ IF Catches(exceptions, kind)
               THEN /\ last_exc' = exc
                    /\ pc' = AfterCaught(attempt)
                    /\ result' = result
               ELSE /\ last_exc' = last_exc
                    /\ pc' = "done"
                    /\ result' = Raised(exc)
    /\ UNCHANGED <<pollCfg, clock, pollLocal, pollHist, apiVars, threads,
                   loop, uniq, earlier>>
    /\ UNCHANGED <<callee, sleeps, inv, retryCfg, attempt, current_delay,
                   observed>>

\* variant of RetryObserve: when the callback raises, the fault of func is
\* raised in its place
RetryObserve_RaisesLast ==
    /\ callee = "retry" /\ pc = "observe"
    /\ observed' = Append(observed, <<last_exc, attempt>>)
    /\ \/ pc' = "sleep" /\ result' = result
       \/ pc' = "done" /\ result' = Raised(last_exc)
    /\ UNCHANGED <<pollCfg, clock, pollLocal, pollHist, apiVars, threads,
                   loop, uniq, earlier>>
    /\ UNCHANGED <<callee, sleeps, inv, retryCfg, attempt, current_delay,
                   last_exc, outcomes>>

\* variant of RetryObserve: the observer is told the number of the next attempt
RetryObserve_NextAttempt ==
    /\ callee = "retry" /\ pc = "observe"
    /\ observed' = Append(observed, <<last_exc, attempt + 1>>)
    /\ \/ pc' = "sleep" /\ result' = result
       \/ /\ pc' = "done"
          /\ result' = Raised(Fault("ValueError", "on_retry", attempt))
    /\ UNCHANGED <<pollCfg, clock, pollLocal, pollHist, apiVars, threads,
                   loop, uniq, earlier>>
    /\ UNCHANGED <<callee, sleeps, inv, retryCfg, attempt, current_delay,
                   last_exc, outcomes>>

\* on_retry(exc, attempt): lines 72-73; the callback may itself raise
RetryObserve ==
    /\ callee = "retry" /\ pc = "observe"
    /\ observed' = Append(observed, <<last_exc, attempt>>)
    /\ \/ pc' = "sleep" /\ result' = result
       \/ /\ pc' = "done"
          /\ result' = Raised(Fault("ValueError", "on_retry", attempt))
    /\ UNCHANGED <<pollCfg, clock, pollLocal, pollHist, apiVars, threads,
                   loop, uniq, earlier>>
    /\ UNCHANGED <<callee, sleeps, inv, retryCfg, attempt, current_delay,
                   last_exc, outcomes>>

\* variant of RetrySleep: the delay is multiplied before the suspension
RetrySleep_MultiplyFirst ==
    /\ callee = "retry" /\ pc = "sleep"
    /\ sleeps' = Append(sleeps, Mul(current_delay, backoff))
    /\ current_delay' = Mul(current_delay, backoff)
    /\ attempt' = attempt + 1
    /\ pc' = "call"
    /\ UNCHANGED <<pollCfg, clock, pollLocal, pollHist, apiVars, threads,
                   loop, uniq, earlier>>
    /\ UNCHANGED <<callee, result, inv, retryCfg, last_exc, outcomes, observed>>

\* time.sleep(current_delay); current_delay *= backoff; next attempt:
\* lines 74-75 and 61
RetrySleep ==
    /\ callee = "retry" /\ pc = "sleep"
    /\ sleeps' = Append(sleeps, current_delay)
    /\ current_delay' = Mul(current_delay, backoff)
    /\ attempt' = attempt + 1
    /\ pc' = "call"
    /\ UNCHANGED <<pollCfg, clock, pollLocal, pollHist, apiVars, threads,
                   loop, uniq, earlier>>
    /\ UNCHANGED <<callee, result, inv, retryCfg, last_exc, outcomes, observed>>

\* variant of RetryRaise: the attempts begin again ("while True:" around the
\* for loop)
RetryRaise_BeginAgain ==
    /\ callee = "retry" /\ pc = "raise"
    /\ result' = result
    /\ pc' = IF times >= 1 THEN "call" ELSE "done"
    /\ attempt' = IF times >= 1 THEN 1 ELSE 0
    /\ current_delay' = delay
    /\ last_exc' = NoFault
    /\ outcomes' = <<>> /\ observed' = <<>> /\ sleeps' = <<>>
    /\ UNCHANGED <<pollCfg, clock, pollLocal, pollHist, apiVars, threads,
                   loop, uniq, earlier>>
    /\ UNCHANGED <<callee, inv, retryCfg>>

\* variant of RetryRaise: "if last_exc: raise last_exc", else None is returned
RetryRaise_ReturnsNone ==
    /\ callee = "retry" /\ pc = "raise"
    /\ result' = IF last_exc = NoFault
                    THEN Returned(NoneVal)
                    ELSE Raised(last_exc)
    /\ pc' = "done"
    /\ UNCHANGED <<pollCfg, clock, pollLocal, pollHist, apiVars, threads,
                   loop, uniq, earlier>>
    /\ UNCHANGED <<callee, sleeps, inv, retryCfg, retryLocal>>

\* raise last_exc: line 76.  "raise None" is a TypeError of the wrapper.
RetryRaise ==
    /\ callee = "retry" /\ pc = "raise"
    /\ result' = IF last_exc = NoFault
                    THEN Raised(Fault("TypeError", "wrapper", 0))
                    ELSE Raised(last_exc)
    /\ pc' = "done"
    /\ UNCHANGED <<pollCfg, clock, pollLocal, pollHist, apiVars, threads,
                   loop, uniq, earlier>>
    /\ UNCHANGED <<callee, sleeps, inv, retryCfg, retryLocal>>

RetryNext ==
    \/ RetryStart
    \/ RetryCallReturns
    \/ RetryCallRaises
    \/ RetryObserve
    \/ RetrySleep
    \/ RetryRaise

----------------------------------------------------------------------------
(* wait_until, poll_until and the asyncio variants: the steps they share *)

\* a polling primitive that has not been called yet
PollInit ==
    /\ callee \in Waits \cup Polls
    /\ timeout \in 0..MaxTimeout
    /\ interval \in 1..MaxInterval
    /\ message \in {DefaultMessage(callee), "job not complete"}
    /\ accept \in (IF callee \in Polls THEN SUBSET Values ELSE {{}})
    /\ condAsync \in (IF callee \in Asyncs THEN BOOLEAN ELSE {FALSE})
    /\ fnAsync \in (IF callee = "async_poll_until" THEN BOOLEAN ELSE {FALSE})
    /\ simulated \in BOOLEAN
    /\ now \in 0..MaxStart
    /\ ticks = 0
    /\ start = 0 /\ deadline = 0 /\ last_result = NoneVal
    /\ produced = <<>> /\ tested = <<>>
    /\ reads = <<>> /\ cancelled = FALSE
    /\ times = 0 /\ delay = Rat(0) /\ backoff = Rat(1)
    /\ exceptions = DefaultExceptions /\ on_retry = "None"
    /\ RetryIdle
    /\ ApiIdle

\* variant of Begin: the deadline is the timeout itself, not relative to the clock
Begin_AbsoluteDeadline(c) ==
    /\ callee = c /\ pc = "idle"
    /\ inv' = inv + 1
    /\ start' = now
    /\ deadline' = timeout
    /\ last_result' = NoneVal
    /\ pc' = "check"
    /\ UNCHANGED <<apiVars, threads, loop, uniq, earlier, pollHist>>
    /\ UNCHANGED <<callee, result, sleeps, retryCfg, retryLocal, pollCfg,
                   clock, produced, tested>>

\* deadline = <clock>() + timeout, and for the poll variants last_result = None
Begin(c) ==
    /\ callee = c /\ pc = "idle"
    /\ inv' = inv + 1
    /\ start' = now
    /\ deadline' = now + timeout
    /\ last_result' = NoneVal
    /\ pc' = "check"
    /\ UNCHANGED <<apiVars, threads, loop, uniq, earlier, pollHist>>
    /\ UNCHANGED <<callee, result, sleeps, retryCfg, retryLocal, pollCfg,
                   clock, produced, tested>>

\* variant of LoopCheck: "while <clock>() <= deadline"
LoopCheck_Inclusive(c, body) ==
    /\ callee = c /\ pc = "check"
    /\ reads' = Append(reads, now)
    /\ pc' = IF now <= deadline THEN body ELSE "timeout"
    /\ UNCHANGED <<apiVars, threads, loop, uniq, earlier, cancelled>>
    /\ UNCHANGED <<callee, result, sleeps, inv, retryCfg, retryLocal,
                   pollCfg, clock, pollLocal>>

\* while <clock>() < deadline: enter the body, or fall out of the loop
LoopCheck(c, body) ==
    /\ callee = c /\ pc = "check"
    /\ reads' = Append(reads, now)
    /\ pc' = IF now < deadline THEN body ELSE "timeout"
    /\ UNCHANGED <<apiVars, threads, loop, uniq, earlier, cancelled>>
    /\ UNCHANGED <<callee, result, sleeps, inv, retryCfg, retryLocal,
                   pollCfg, clock, pollLocal>>

\* variant of Conclude: a fault of the condition is swallowed and polled over
Conclude_Swallow(arg, out, retval) ==
    /\ tested' = Append(tested, [arg |-> arg, out |-> out])
    /\ CASE out \in {"false", "raised"} ->
              pc' = "sleep" /\ result' = result
         [] OTHER ->
              pc' = "done" /\ result' = Returned(retval)

\* the truth test on a completed condition result: return retval, go on to
\* the suspension, or let the fault of the condition propagate
Conclude(arg, out, retval) ==
    /\ tested' = Append(tested, [arg |-> arg, out |-> out])
    /\ CASE out = "false" ->
              pc' = "sleep" /\ result' = result
         [] out = "raised" ->
              /\ pc' = "done"
              /\ result' = Raised(Fault("ValueError", "condition",
                                        Len(tested) + 1))
         [] OTHER ->
              pc' = "done" /\ result' = Returned(retval)

\* variant of Suspend: the last suspension is cut short at the deadline
Suspend_UntilDeadline(c) ==
    /\ callee = c /\ pc = "sleep"
    /\ LET nap == IF now + interval > deadline /\ deadline > now
                     THEN deadline - now ELSE interval IN
         /\ sleeps' = Append(sleeps, nap)
         /\ now' = now + nap
    /\ pc' = "check"
    /\ UNCHANGED <<apiVars, threads, loop, uniq, earlier, pollHist>>
    /\ UNCHANGED <<callee, result, inv, retryCfg, retryLocal, pollCfg,
                   ticks, pollLocal>>

\* time.sleep(interval) / await asyncio.sleep(interval) has completed
Suspend(c) ==
    /\ callee = c /\ pc = "sleep"
    /\ sleeps' = Append(sleeps, interval)
    /\ now' = now + interval
    /\ pc' = "check"
    /\ UNCHANGED <<apiVars, threads, loop, uniq, earlier, pollHist>>
    /\ UNCHANGED <<callee, result, inv, retryCfg, retryLocal, pollCfg,
                   ticks, pollLocal>>

\* variant of TimeoutText: the text reports the time that has elapsed
TimeoutText_Elapsed(withLast) ==
    [message |-> message, seconds |-> now - start,
     last |-> IF withLast THEN Str(last_result) ELSE ""]

\* the f-string handed to TimeoutError
TimeoutText(withLast) ==
    [message |-> message, seconds |-> timeout,
     last |-> IF withLast THEN Str(last_result) ELSE ""]

\* raise TimeoutError(...)
RaiseTimeout(c, withLast) ==
    /\ callee = c /\ pc = "timeout"
    /\ result' = Raised([kind |-> "TimeoutError", by |-> c,
                         at |-> Len(tested), text |-> TimeoutText(withLast)])
    /\ pc' = "done"
    /\ UNCHANGED <<apiVars, threads, loop, uniq, earlier, pollHist>>
    /\ UNCHANGED <<callee, sleeps, inv, retryCfg, retryLocal, pollCfg,
                   clock, pollLocal>>

\* variant of Produce: the value is tested but not stored in last_result
Produce_NoStore(c, from) ==
    /\ callee = c /\ pc = from
    /\ \/ \E v \in Values :
            /\ produced' = Append(produced, Returned(v))
            /\ last_result' = last_result
            /\ pc' = "test"
            /\ result' = result
       \/ LET exc == Fault("ValueError", "fn", Len(produced) + 1) IN
            /\ produced' = Append(produced, Raised(exc))
            /\ last_result' = last_result
            /\ pc' = "done"
            /\ result' = Raised(exc)
    /\ UNCHANGED <<apiVars, threads, loop, uniq, earlier, pollHist>>
    /\ UNCHANGED <<callee, sleeps, inv, retryCfg, retryLocal, pollCfg,
                   clock, start, deadline, tested>>

\* fn() has completed: last_result = <value>, or its fault propagates
Produce(c, from) ==
    /\ callee = c /\ pc = from
    /\ \/ \E v \in Values :
            /\ produced' = Append(produced, Returned(v))
            /\ last_result' = v
            /\ pc' = "test"
            /\ result' = result
       \/ LET exc == Fault("ValueError", "fn", Len(produced) + 1) IN
            /\ produced' = Append(produced, Raised(exc))
            /\ last_result' = last_result
            /\ pc' = "done"
            /\ result' = Raised(exc)
    /\ UNCHANGED <<apiVars, threads, loop, uniq, earlier, pollHist>>
    /\ UNCHANGED <<callee, sleeps, inv, retryCfg, retryLocal, pollCfg,
                   clock, start, deadline, tested>>

\* variant of Cancelled: the cancellation is caught around the await and the
\* loop goes on
Cancelled_Swallowed(c, at) ==
    /\ callee = c /\ pc \in at
    /\ cancelled' = TRUE
    /\ result' = result
    /\ pc' = "check"
    /\ UNCHANGED <<apiVars, threads, loop, uniq, earlier, reads>>
    /\ UNCHANGED <<callee, sleeps, inv, retryCfg, retryLocal, pollCfg,
                   clock, pollLocal>>

\* the task is cancelled while it is suspended in an await
Cancelled(c, at) ==
    /\ callee = c /\ pc \in at
    /\ cancelled' = TRUE
    /\ result' = Raised(Fault("CancelledError", "scheduler", Len(sleeps)))
    /\ pc' = "done"
    /\ UNCHANGED <<apiVars, threads, loop, uniq, earlier, reads>>
    /\ UNCHANGED <<callee, sleeps, inv, retryCfg, retryLocal, pollCfg,
                   clock, pollLocal>>

\* a real clock advances while the call runs; a simulated one does not
Tick ==
    /\ callee \in Waits \cup Polls
    /\ ~simulated
    /\ pc \notin {"idle", "done"}
    /\ ticks < MaxTicks
    /\ now' = now + 1
    /\ ticks' = ticks + 1
    /\ UNCHANGED <<apiVars, threads, loop, uniq, earlier, pollHist>>
    /\ UNCHANGED <<callee, pc, result, sleeps, inv, retryCfg, retryLocal,
                   pollCfg, pollLocal>>

----------------------------------------------------------------------------
(* wait_until: lines 94-99 *)

WaitUntilStart == Begin("wait_until")

WaitUntilCheck == LoopCheck("wait_until", "eval")

\* variant of WaitUntilEval: "if not condition(): return"
WaitUntilEval_Inverted ==
    /\ callee = "wait_until" /\ pc = "eval"
    /\ \/ /\ tested' = Append(tested, [arg |-> NoneVal, out |-> "true"])
          /\ pc' = "sleep" /\ result' = result
       \/ /\ tested' = Append(tested, [arg |-> NoneVal, out |-> "false"])
          /\ pc' = "done" /\ result' = Returned(NoneVal)
    /\ UNCHANGED <<apiVars, threads, loop, uniq, earlier, pollHist>>
    /\ UNCHANGED <<callee, sleeps, inv, retryCfg, retryLocal, pollCfg, clock,
                   start, deadline, last_result, produced>>

\* if condition(): return
WaitUntilEval ==
    /\ callee = "wait_until" /\ pc = "eval"
    /\ \E out \in {"true", "false", "raised"} : Conclude(NoneVal, out, NoneVal)
    /\ UNCHANGED <<apiVars, threads, loop, uniq, earlier, pollHist>>
    /\ UNCHANGED <<callee, sleeps, inv, retryCfg, retryLocal, pollCfg, clock,
                   start, deadline, last_result, produced>>

WaitUntilSleep == Suspend("wait_until")

WaitUntilTimeout == RaiseTimeout("wait_until", FALSE)

----------------------------------------------------------------------------
(* poll_until: lines 121-128 *)

PollUntilStart == Begin("poll_until")

\* variant of PollUntilCheck: fn is called on the first iteration only
PollUntilCheck_ProduceOnce ==
    LoopCheck("poll_until", IF produced = <<>> THEN "produce" ELSE "test")

PollUntilCheck == LoopCheck("poll_until", "produce")

\* last_result = fn()
PollUntilProduce == Produce("poll_until", "produce")

\* variant of PollUntilTest: the deadline is looked at again before returning
PollUntilTest_RecheckDeadline ==
    /\ callee = "poll_until" /\ pc = "test"
    /\ IF now < deadline
          THEN \E out \in {IF last_result \in accept THEN "true" ELSE "false",
                           "raised"} :
                  Conclude(last_result, out, last_result)
          ELSE /\ tested' = Append(tested, [arg |-> last_result,
                                            out |-> "false"])
               /\ pc' = "timeout" /\ result' = result
    /\ UNCHANGED <<apiVars, threads, loop, uniq, earlier, pollHist>>
    /\ UNCHANGED <<callee, sleeps, inv, retryCfg, retryLocal, pollCfg, clock,
                   start, deadline, last_result, produced>>

\* variant of PollUntilTest: a bare "return" when the condition holds
PollUntilTest_BareReturn ==
    /\ callee = "poll_until" /\ pc = "test"
    /\ \E out \in {IF last_result \in accept THEN "true" ELSE "false",
                   "raised"} :
          Conclude(last_result, out, NoneVal)
    /\ UNCHANGED <<apiVars, threads, loop, uniq, earlier, pollHist>>
    /\ UNCHANGED <<callee, sleeps, inv, retryCfg, retryLocal, pollCfg, clock,
                   start, deadline, last_result, produced>>

\* if condition(last_result): return last_result
PollUntilTest ==
    /\ callee = "poll_until" /\ pc = "test"
    /\ \E out \in {IF last_result \in accept THEN "true" ELSE "false",
                   "raised"} :
          Conclude(last_result, out, last_result)
    /\ UNCHANGED <<apiVars, threads, loop, uniq, earlier, pollHist>>
    /\ UNCHANGED <<callee, sleeps, inv, retryCfg, retryLocal, pollCfg, clock,
                   start, deadline, last_result, produced>>

PollUntilSleep == Suspend("poll_until")

PollUntilTimeout == RaiseTimeout("poll_until", TRUE)

----------------------------------------------------------------------------
(* async_wait_until: lines 138-146 *)

AsyncWaitUntilStart == Begin("async_wait_until")

AsyncWaitUntilCheck == LoopCheck("async_wait_until", "eval")

\* variant of AsyncWaitUntilEval: the coroutine is truth-tested, not awaited
AsyncWaitUntilEval_NoAwait ==
    /\ callee = "async_wait_until" /\ pc = "eval"
    /\ IF condAsync
          THEN Conclude(NoneVal, "coroutine", NoneVal)
          ELSE \E out \in {"true", "false", "raised"} :
                   Conclude(NoneVal, out, NoneVal)
    /\ UNCHANGED <<apiVars, threads, loop, uniq, earlier, pollHist>>
    /\ UNCHANGED <<callee, sleeps, inv, retryCfg, retryLocal, pollCfg, clock,
                   start, deadline, last_result, produced>>

\* result = condition(): a coroutine to await, or the result itself
AsyncWaitUntilEval ==
    /\ callee = "async_wait_until" /\ pc = "eval"
    /\ IF condAsync
          THEN pc' = "await_cond" /\ UNCHANGED <<result, tested>>
          ELSE \E out \in {"true", "false", "raised"} :
                   Conclude(NoneVal, out, NoneVal)
    /\ UNCHANGED <<apiVars, threads, loop, uniq, earlier, pollHist>>
    /\ UNCHANGED <<callee, sleeps, inv, retryCfg, retryLocal, pollCfg, clock,
                   start, deadline, last_result, produced>>

\* result = await result; if result: return
AsyncWaitUntilAwait ==
    /\ callee = "async_wait_until" /\ pc = "await_cond"
    /\ \E out \in {"true", "false", "raised"} : Conclude(NoneVal, out, NoneVal)
    /\ UNCHANGED <<apiVars, threads, loop, uniq, earlier, pollHist>>
    /\ UNCHANGED <<callee, sleeps, inv, retryCfg, retryLocal, pollCfg, clock,
                   start, deadline, last_result, produced>>

AsyncWaitUntilSleep == Suspend("async_wait_until")

AsyncWaitUntilTimeout == RaiseTimeout("async_wait_until", FALSE)

AsyncWaitUntilCancelled == Cancelled("async_wait_until", {"await_cond", "sleep"})

----------------------------------------------------------------------------
(* async_poll_until: lines 157-167 *)

AsyncPollUntilStart == Begin("async_poll_until")

AsyncPollUntilCheck == LoopCheck("async_poll_until", "produce")

\* result = fn(): a coroutine to await, or the value itself
AsyncPollUntilProduce ==
    \/ /\ fnAsync
       /\ callee = "async_poll_until" /\ pc = "produce"
       /\ pc' = "await_fn"
       /\ UNCHANGED <<apiVars, threads, loop, uniq, earlier, pollHist>>
       /\ UNCHANGED <<callee, result, sleeps, inv, retryCfg, retryLocal,
                      pollCfg, clock, pollLocal>>
    \/ /\ ~fnAsync
       /\ Produce("async_poll_until", "produce")

\* result = await result; last_result = result
AsyncPollUntilAwait == Produce("async_poll_until", "await_fn")

\* if condition(result): return result.  The value of condition(result) is
\* truth-tested as it is: a coroutine object is true.
AsyncPollUntilTest ==
    /\ callee = "async_poll_until" /\ pc = "test"
    /\ IF condAsync
          THEN Conclude(last_result, "coroutine", last_result)
          ELSE \E out \in {IF last_result \in accept THEN "true" ELSE "false",
                           "raised"} :
                   Conclude(last_result, out, last_result)
    /\ UNCHANGED <<apiVars, threads, loop, uniq, earlier, pollHist>>
    /\ UNCHANGED <<callee, sleeps, inv, retryCfg, retryLocal, pollCfg, clock,
                   start, deadline, last_result, produced>>

AsyncPollUntilSleep == Suspend("async_poll_until")

AsyncPollUntilTimeout == RaiseTimeout("async_poll_until", TRUE)

AsyncPollUntilCancelled == Cancelled("async_poll_until", {"await_fn", "sleep"})

PollNext ==
    \/ WaitUntilStart \/ WaitUntilCheck \/ WaitUntilEval
    \/ WaitUntilSleep \/ WaitUntilTimeout
    \/ PollUntilStart \/ PollUntilCheck \/ PollUntilProduce
    \/ PollUntilTest \/ PollUntilSleep \/ PollUntilTimeout
    \/ AsyncWaitUntilStart \/ AsyncWaitUntilCheck \/ AsyncWaitUntilEval
    \/ AsyncWaitUntilAwait \/ AsyncWaitUntilSleep \/ AsyncWaitUntilTimeout
    \/ AsyncWaitUntilCancelled
    \/ AsyncPollUntilStart \/ AsyncPollUntilCheck \/ AsyncPollUntilProduce
    \/ AsyncPollUntilAwait \/ AsyncPollUntilTest \/ AsyncPollUntilSleep
    \/ AsyncPollUntilTimeout \/ AsyncPollUntilCancelled
    \/ Tick

----------------------------------------------------------------------------
(* wait_until and poll_until as functions of what the clock and the          *)
(* collaborators answered: the loop replayed from iteration k on the         *)
(* recorded clock readings, fn() outcomes and condition outcomes.            *)

\* how a replayed run ended: evaluations made, suspensions made, and outcome
RunEnd(evals, naps, status, value, kind) ==
    [evals |-> evals, sleeps |-> naps, status |-> status, value |-> value,
     kind |-> kind]

\* the history does not reach the end of the call
RunOpen(k) == RunEnd(k - 1, k - 1, "none", NoneVal, "None")

\* wait_until: lines 94-99
RECURSIVE WaitUntilRun(_)
WaitUntilRun(k) ==
    IF k > Len(reads) THEN RunOpen(k)
    ELSE IF ~(reads[k] < start + timeout)
        THEN RunEnd(k - 1, k - 1, "raised", NoneVal, "TimeoutError")
    ELSE IF k > Len(tested) THEN RunOpen(k)
    ELSE CASE tested[k].out = "true" ->
                 RunEnd(k, k - 1, "returned", NoneVal, "None")
           [] tested[k].out = "raised" ->
                 RunEnd(k, k - 1, "raised", NoneVal, "ValueError")
           [] tested[k].out = "false" -> WaitUntilRun(k + 1)
           [] OTHER -> RunOpen(k)

\* poll_until: lines 121-128
RECURSIVE PollUntilRun(_)
PollUntilRun(k) ==
    IF k > Len(reads) THEN RunOpen(k)
    ELSE IF ~(reads[k] < start + timeout)
        THEN RunEnd(k - 1, k - 1, "raised", NoneVal, "TimeoutError")
    ELSE IF k > Len(produced) THEN RunOpen(k)
    ELSE IF produced[k].status = "raised"
        THEN RunEnd(k - 1, k - 1, "raised", NoneVal, produced[k].exc.kind)
    ELSE IF k > Len(tested) THEN RunOpen(k)
    ELSE CASE tested[k].out = "true" ->
                 RunEnd(k, k - 1, "returned", produced[k].value, "None")
           [] tested[k].out = "raised" ->
                 RunEnd(k, k - 1, "raised", NoneVal, "ValueError")
           [] tested[k].out = "false" -> PollUntilRun(k + 1)
           [] OTHER -> RunOpen(k)

----------------------------------------------------------------------------
(* ApiClient of utils/api_client.py: __init__, _request and _arequest *)

\* default of the constructor parameter: raise_on_error: bool = False
DefaultRaiseOnError == FALSE

\* get/post/put/patch/delete and aget/.../adelete pass these to _request/_arequest
Methods == {"GET", "POST", "PUT", "PATCH", "DELETE"}

\* the response statuses httpx hands back in the model
StatusCodes == {200, 404, 500, 503}

\* response.raise_for_status() raises for the 4xx and 5xx statuses
IsErrorStatus(sc) == sc \in 400..599

\* ApiClient(...): self.raise_on_error = raise_on_error
ApiInit ==
    /\ callee \in {"_request", "_arequest"}
    /\ raise_on_error_arg \in {"omitted", "True", "False"}
    /\ raise_on_error = (IF raise_on_error_arg = "omitted"
                            THEN DefaultRaiseOnError
                            ELSE raise_on_error_arg = "True")
    /\ method \in Methods
    /\ status_code = 0
    /\ times = 0 /\ delay = Rat(0) /\ backoff = Rat(1)
    /\ exceptions = DefaultExceptions /\ on_retry = "None"
    /\ RetryIdle
    /\ PollIdle

\* response = client.request(...); if self.raise_on_error:
\* response.raise_for_status(); return response
Request(c) ==
    /\ callee = c /\ pc = "idle"
    /\ inv' = inv + 1
    /\ \E sc \in StatusCodes :
         /\ status_code' = sc
         /\ result' = IF raise_on_error /\ IsErrorStatus(sc)
                         THEN Raised(Fault("HTTPStatusError",
                                           "raise_for_status", sc))
                         ELSE Returned(sc)
    /\ pc' = "done"
    /\ UNCHANGED <<callee, sleeps, retryCfg, retryLocal, pollCfg, clock,
                   pollLocal, pollHist, raise_on_error_arg, raise_on_error,
                   method, threads, loop, uniq,
                   earlier>>

\* ApiClient._request: lines 91-105
ApiRequest == Request("_request")

\* ApiClient._arequest: lines 124-131
ApiARequest == Request("_arequest")

ApiNext == ApiRequest \/ ApiARequest

----------------------------------------------------------------------------
(* assert_unique of utils/assertions.py: lines 133-138                     *)
(*                                                                         *)
(* A value of a key is an int k, the str "k" or the float k.0.             *)

MaxKey   == 2     \* the numbers in the values are 1..MaxKey
MaxItems == 3     \* largest len(data)

PyValues == [type : {"int", "str", "float"}, n : 1..MaxKey]

\* str(v): the digits of an int, the str itself, the digits and ".0"
PyStr(v) ==
    IF v.type = "float" THEN ToString(v.n) \o ".0" ELSE ToString(v.n)

\* v == w: numbers compare by value, a str is equal to the same str only
PyEq(v, w) ==
    /\ v.n = w.n
    /\ (v.type = "str") = (w.type = "str")

\* xs.count(v)
Count(xs, v) == Cardinality({i \in 1..Len(xs) : PyEq(xs[i], v)})

\* [v for v in xs if xs.count(v) > 1], from position k on
RECURSIVE Duplicates(_, _)
Duplicates(xs, k) ==
    IF k > Len(xs) THEN <<>>
    ELSE IF Count(xs, xs[k]) > 1
            THEN <<xs[k]>> \o Duplicates(xs, k + 1)
            ELSE Duplicates(xs, k + 1)

\* set(str(v) for v in xs)
StrSet(xs) == {PyStr(xs[i]) : i \in 1..Len(xs)}

\* values = [item[key] for item in data], for data whose items have the key
UniqueInit ==
    /\ pc = "idle" /\ result = NoResult /\ sleeps = <<>> /\ inv = 0
    /\ threads = <<>> /\ loop = <<>> /\ earlier = NoEarlier
    /\ callee = "assert_unique"
    /\ values \in UNION {[1..n -> PyValues] : n \in 0..MaxItems}
    /\ duplicates = <<>>
    /\ times = 0 /\ delay = Rat(0) /\ backoff = Rat(1)
    /\ exceptions = DefaultExceptions /\ on_retry = "None"
    /\ RetryIdle /\ PollIdle /\ ApiIdle

\* if len(values) != len(set(...)): duplicates = [...]; raise AssertionError
AssertUnique ==
    /\ callee = "assert_unique" /\ pc = "idle"
    /\ inv' = inv + 1
    /\ IF Len(values) # Cardinality(StrSet(values))
          THEN /\ duplicates' = Duplicates(values, 1)
               /\ result' = Raised(Fault("AssertionError", "assert_unique", 0))
          ELSE /\ duplicates' = duplicates
               /\ result' = Returned(NoneVal)
    /\ pc' = "done"
    /\ UNCHANGED <<callee, sleeps, retryCfg, retryLocal, pollCfg, clock,
                   pollLocal, pollHist, apiVars, threads, loop, earlier,
                   values>>

SpecUnique == UniqueInit /\ [][AssertUnique]_vars

----------------------------------------------------------------------------
Init ==
    /\ pc = "idle"
    /\ result = NoResult
    /\ sleeps = <<>>
    /\ inv = 0
    /\ threads = <<>>
    /\ loop = <<>>
    /\ values = <<>> /\ duplicates = <<>>
    /\ earlier = NoEarlier
    /\ RetryInit \/ PollInit \/ ApiInit

Next == RetryNext \/ PollNext \/ ApiNext

Spec == Init /\ [][Next]_vars

----------------------------------------------------------------------------
(* The blocking primitives with a clock that advances during suspensions   *)
(* only, and collaborators that always complete                            *)

Blocking == {"retry", "wait_until", "poll_until"}

LiveInit ==
    /\ Init
    /\ callee \in Blocking
    /\ callee # "retry" => simulated

LiveNext ==
    \/ RetryNext
    \/ WaitUntilStart \/ WaitUntilCheck \/ WaitUntilEval
    \/ WaitUntilSleep \/ WaitUntilTimeout
    \/ PollUntilStart \/ PollUntilCheck \/ PollUntilProduce
    \/ PollUntilTest \/ PollUntilSleep \/ PollUntilTimeout

\* the calling thread keeps running and func, fn and condition complete
SpecLive == LiveInit /\ [][LiveNext]_vars /\ WF_vars(LiveNext)

----------------------------------------------------------------------------
(* Several calls in flight at once.  Two threads call the same decorated   *)
(* function, or the same polling primitive with the same arguments.  What  *)
(* the closure of retry(...) holds (times, delay, backoff, exceptions,     *)
(* on_retry) and the arguments are read only; every name the bodies assign *)
(* is a local of the call, kept per thread in threads[t].  The clock is    *)
(* the one clock of the process: a sleep ends once it has advanced by the  *)
(* interval.                                                               *)

Threads == {"t1", "t2"}

MaxConcTimes   == 2     \* largest number of attempts of the concurrent calls
MaxConcTimeout == 2     \* largest timeout of the concurrent calls, in ticks
MaxConcClock   == 2     \* the clock of the concurrent calls stops here

\* what func and fn return, and how func fails, in the concurrent calls
ConcValues     == {1, 2}
ConcFaultKinds == {"ValueError", "KeyboardInterrupt"}

\* the locals of a call that has not begun
FreshLocals ==
    [pc |-> "idle", result |-> NoResult, sleeps |-> <<>>,
     attempt |-> 0, current_delay |-> Rat(0), last_exc |-> NoFault,
     outcomes |-> <<>>, observed |-> <<>>,
     start |-> 0, deadline |-> 0, last_result |-> NoneVal,
     produced |-> <<>>, tested |-> <<>>, reads |-> <<>>, wake |-> 0]

\* everything but the clock and the threads
single == <<callee, pc, result, sleeps, inv, retryCfg, retryLocal, pollCfg,
            pollLocal, pollHist, apiVars, ticks, earlier, loop, uniq>>

ConcInit ==
    /\ pc = "idle" /\ result = NoResult /\ sleeps = <<>> /\ inv = 0
    /\ earlier = NoEarlier /\ loop = <<>>
    /\ values = <<>> /\ duplicates = <<>>
    /\ RetryIdle /\ ApiIdle
    /\ start = 0 /\ deadline = 0 /\ last_result = NoneVal
    /\ produced = <<>> /\ tested = <<>>
    /\ reads = <<>> /\ cancelled = FALSE
    /\ condAsync = FALSE /\ fnAsync = FALSE /\ simulated = FALSE
    /\ now = 0 /\ ticks = 0
    /\ threads = [t \in Threads |-> FreshLocals]
    /\ \/ /\ callee = "retry"
          /\ times \in 0..MaxConcTimes
          /\ delay = Rat(1)
          /\ backoff \in {Rat(1), Rat(2)}
          /\ exceptions \in {DefaultExceptions, {"TimeoutError"}}
          /\ on_retry \in Observers
          /\ timeout = 0 /\ interval = 0 /\ message = "" /\ accept = {}
       \/ /\ callee \in {"wait_until", "poll_until"}
          /\ timeout \in 1..MaxConcTimeout
          /\ interval = 1
          /\ message = DefaultMessage(callee)
          /\ accept \in (IF callee = "poll_until" THEN {{}, {1}} ELSE {{}})
          /\ times = 0 /\ delay = Rat(0) /\ backoff = Rat(1)
          /\ exceptions = DefaultExceptions /\ on_retry = "None"

\* thread t moves its call from l to m; nobody else's locals change
Moves(t, m) ==
    /\ threads' = [threads EXCEPT ![t] = m]
    /\ UNCHANGED <<single, now>>

\* wrapper(*args, **kwargs) is entered: lines 59-61
ConcRetryStart(t) ==
    LET l == threads[t] IN
    /\ callee = "retry" /\ l.pc = "idle"
    /\ Moves(t, [l EXCEPT !.current_delay = delay,
                          !.last_exc = NoFault,
                          !.attempt = IF times >= 1 THEN 1 ELSE 0,
                          !.pc = IF times >= 1 THEN "call" ELSE "raise"])

\* return func(*args, **kwargs) returns a value: line 63
ConcRetryCallReturns(t) ==
    LET l == threads[t] IN
    /\ callee = "retry" /\ l.pc = "call"
    /\ \E v \in ConcValues :
         Moves(t, [l EXCEPT !.outcomes = Append(@, Returned(v)),
                            !.result = Returned(v),
                            !.pc = "done"])

\* func raises: lines 63-67
ConcRetryCallRaises(t) ==
    LET l == threads[t] IN
    /\ callee = "retry" /\ l.pc = "call"
    /\ \E kind \in ConcFaultKinds :
         LET exc == Fault(kind, "func", l.attempt) IN
         IF Catches(exceptions, kind)
            THEN Moves(t, [l EXCEPT !.outcomes = Append(@, Raised(exc)),
                                    !.last_exc = exc,
                                    !.pc = AfterCaught(l.attempt)])
            ELSE Moves(t, [l EXCEPT !.outcomes = Append(@, Raised(exc)),
                                    !.result = Raised(exc),
                                    !.pc = "done"])

\* on_retry(exc, attempt): lines 72-73; the callback may itself raise
ConcRetryObserve(t) ==
    LET l == threads[t]
        seen == Append(l.observed, <<l.last_exc, l.attempt>>) IN
    /\ callee = "retry" /\ l.pc = "observe"
    /\ \/ Moves(t, [l EXCEPT !.observed = seen, !.pc = "sleep"])
       \/ Moves(t, [l EXCEPT !.observed = seen, !.pc = "done",
                             !.result = Raised(Fault("ValueError", "on_retry",
                                                     l.attempt))])

\* variant of ConcRetrySleep: current_delay is a variable of the closure,
\* shared by all the calls of the decorated function
ConcRetrySleep_SharedDelay(t) ==
    LET l == threads[t] IN
    /\ callee = "retry" /\ l.pc = "sleep"
    /\ threads' = [u \in Threads |->
                     IF u = t
                        THEN [l EXCEPT !.sleeps = Append(@, l.current_delay),
                                       !.current_delay = Mul(@, backoff),
                                       !.attempt = @ + 1,
                                       !.pc = "call"]
                        ELSE [threads[u] EXCEPT
                                 !.current_delay = Mul(l.current_delay,
                                                       backoff)]]
    /\ UNCHANGED <<single, now>>

\* time.sleep(current_delay); current_delay *= backoff; next attempt:
\* lines 74-75 and 61
ConcRetrySleep(t) ==
    LET l == threads[t] IN
    /\ callee = "retry" /\ l.pc = "sleep"
    /\ Moves(t, [l EXCEPT !.sleeps = Append(@, l.current_delay),
                          !.current_delay = Mul(@, backoff),
                          !.attempt = @ + 1,
                          !.pc = "call"])

\* raise last_exc: line 76
ConcRetryRaise(t) ==
    LET l == threads[t] IN
    /\ callee = "retry" /\ l.pc = "raise"
    /\ Moves(t, [l EXCEPT !.result = IF l.last_exc = NoFault
                                        THEN Raised(Fault("TypeError",
                                                          "wrapper", 0))
                                        ELSE Raised(l.last_exc),
                          !.pc = "done"])

\* deadline = time.monotonic() + timeout; last_result = None: lines 94, 121-122
ConcPollStart(t) ==
    LET l == threads[t] IN
    /\ callee \in {"wait_until", "poll_until"} /\ l.pc = "idle"
    /\ Moves(t, [l EXCEPT !.start = now, !.deadline = now + timeout,
                          !.last_result = NoneVal, !.pc = "check"])

\* while time.monotonic() < deadline: lines 95, 123
ConcPollCheck(t) ==
    LET l == threads[t] IN
    /\ callee \in {"wait_until", "poll_until"} /\ l.pc = "check"
    /\ Moves(t, [l EXCEPT !.reads = Append(@, now),
                          !.pc = IF now < l.deadline
                                    THEN (IF callee = "wait_until"
                                             THEN "eval" ELSE "produce")
                                    ELSE "timeout"])

\* the locals after the truth test on a completed condition result
Concluded(l, arg, out, retval) ==
    LET m == [l EXCEPT !.tested = Append(@, [arg |-> arg, out |-> out])] IN
    CASE out = "false" -> [m EXCEPT !.pc = "sleep"]
      [] out = "raised" ->
           [m EXCEPT !.pc = "done",
                     !.result = Raised(Fault("ValueError", "condition",
                                             Len(l.tested) + 1))]
      [] OTHER -> [m EXCEPT !.pc = "done", !.result = Returned(retval)]

\* if condition(): return -- lines 96-97
ConcWaitEval(t) ==
    LET l == threads[t] IN
    /\ callee = "wait_until" /\ l.pc = "eval"
    /\ \E out \in {"true", "false", "raised"} :
          Moves(t, Concluded(l, NoneVal, out, NoneVal))

\* last_result = fn(): line 124
ConcPollProduce(t) ==
    LET l == threads[t] IN
    /\ callee = "poll_until" /\ l.pc = "produce"
    /\ \/ \E v \in ConcValues :
            Moves(t, [l EXCEPT !.produced = Append(@, Returned(v)),
                               !.last_result = v,
                               !.pc = "test"])
       \/ LET exc == Fault("ValueError", "fn", Len(l.produced) + 1) IN
            Moves(t, [l EXCEPT !.produced = Append(@, Raised(exc)),
                               !.result = Raised(exc),
                               !.pc = "done"])

\* if condition(last_result): return last_result -- lines 125-126
ConcPollTest(t) ==
    LET l == threads[t] IN
    /\ callee = "poll_until" /\ l.pc = "test"
    /\ \E out \in {IF l.last_result \in accept THEN "true" ELSE "false",
                   "raised"} :
          Moves(t, Concluded(l, l.last_result, out, l.last_result))

\* time.sleep(interval) begins: lines 98, 127
ConcPollSleep(t) ==
    LET l == threads[t] IN
    /\ callee \in {"wait_until", "poll_until"} /\ l.pc = "sleep"
    /\ Moves(t, [l EXCEPT !.sleeps = Append(@, interval),
                          !.wake = now + interval,
                          !.pc = "asleep"])

\* time.sleep(interval) returns, once the interval has passed
ConcPollWake(t) ==
    LET l == threads[t] IN
    /\ callee \in {"wait_until", "poll_until"} /\ l.pc = "asleep"
    /\ now >= l.wake
    /\ Moves(t, [l EXCEPT !.pc = "check"])

\* raise TimeoutError(...): lines 99, 128
ConcPollTimeout(t) ==
    LET l == threads[t] IN
    /\ callee \in {"wait_until", "poll_until"} /\ l.pc = "timeout"
    /\ Moves(t, [l EXCEPT
          !.pc = "done",
          !.result = Raised(
              [kind |-> "TimeoutError", by |-> callee, at |-> Len(l.tested),
               text |-> [message |-> message, seconds |-> timeout,
                         last |-> IF callee = "poll_until"
                                     THEN Str(l.last_result) ELSE ""]])])

\* the clock of the process advances
ConcTick ==
    /\ callee \in {"wait_until", "poll_until"}
    /\ \E t \in Threads : threads[t].pc # "done"
    /\ now < MaxConcClock
    /\ now' = now + 1
    /\ UNCHANGED <<single, threads>>

ConcNext ==
    \/ \E t \in Threads :
          \/ ConcRetryStart(t) \/ ConcRetryCallReturns(t)
          \/ ConcRetryCallRaises(t) \/ ConcRetryObserve(t)
          \/ ConcRetrySleep(t) \/ ConcRetryRaise(t)
          \/ ConcPollStart(t) \/ ConcPollCheck(t) \/ ConcWaitEval(t)
          \/ ConcPollProduce(t) \/ ConcPollTest(t) \/ ConcPollSleep(t)
          \/ ConcPollWake(t) \/ ConcPollTimeout(t)
    \/ ConcTick

SpecConc == ConcInit /\ [][ConcNext]_vars

----------------------------------------------------------------------------
(* Two asyncio tasks on one event loop                                     *)
(*                                                                         *)
(* Each task runs async_wait_until or async_poll_until with the same       *)
(* arguments.  The loop runs one task at a time, from the head of its      *)
(* ready queue; a task keeps the loop until it reaches                     *)
(* "await asyncio.sleep(interval)" or ends.  A timer that is due puts its  *)
(* task at the back of the ready queue.  threads[t] holds the locals of    *)
(* task t.                                                                 *)

Tasks == Threads

MaxLoopTimeout == 2     \* largest timeout of the tasks, in ticks
MaxLoopTicks   == 1     \* ticks the clock advances while a task is running

\* everything but the clock, the locals of the tasks and the loop
aside == <<callee, pc, result, sleeps, inv, retryCfg, retryLocal, pollCfg,
           pollLocal, pollHist, apiVars, earlier, uniq>>

\* the set of the elements of a queue
Elements(q) == {q[i] : i \in 1..Len(q)}

\* asyncio.gather(prim(...), prim(...)): both tasks are scheduled to start
LoopInit ==
    /\ pc = "idle" /\ result = NoResult /\ sleeps = <<>> /\ inv = 0
    /\ earlier = NoEarlier
    /\ values = <<>> /\ duplicates = <<>>
    /\ RetryIdle /\ ApiIdle
    /\ start = 0 /\ deadline = 0 /\ last_result = NoneVal
    /\ produced = <<>> /\ tested = <<>>
    /\ reads = <<>> /\ cancelled = FALSE
    /\ simulated = FALSE
    /\ now = 0 /\ ticks = 0
    /\ threads = [t \in Tasks |-> FreshLocals]
    /\ loop = [running |-> "none", ready |-> <<"t1", "t2">>,
               owed |-> [t \in Tasks |-> {}]]
    /\ callee \in Asyncs
    /\ timeout \in 1..MaxLoopTimeout
    /\ interval = 1
    /\ message = DefaultMessage(callee)
    /\ accept \in (IF callee = "async_poll_until" THEN {{}, {1}} ELSE {{}})
    /\ condAsync \in (IF callee = "async_wait_until" THEN BOOLEAN ELSE {FALSE})
    /\ fnAsync \in (IF callee = "async_poll_until" THEN BOOLEAN ELSE {FALSE})
    /\ times = 0 /\ delay = Rat(0) /\ backoff = Rat(1)
    /\ exceptions = DefaultExceptions /\ on_retry = "None"

\* task t, which has the loop, moves from l to m; it gives the loop up when
\* it has ended
Runs(t, m) ==
    /\ loop.running = t
    /\ threads' = [threads EXCEPT ![t] = m]
    /\ loop' = IF m.pc = "done" THEN [loop EXCEPT !.running = "none"]
                                ELSE loop
    /\ UNCHANGED <<aside, clock>>

\* the loop calls the next ready handle: the task at the head of the queue
LoopRunOnce ==
    /\ loop.running = "none" /\ loop.ready # <<>>
    /\ LET t == Head(loop.ready) IN
         loop' = [running |-> t, ready |-> Tail(loop.ready),
                  owed |-> [u \in Tasks |-> loop.owed[u] \ {t}]]
    /\ UNCHANGED <<aside, clock, threads>>

\* deadline = loop.time() + timeout (last_result = None): lines 138, 157-158
TaskStart(t) ==
    LET l == threads[t] IN
    /\ l.pc = "idle"
    /\ Runs(t, [l EXCEPT !.start = now, !.deadline = now + timeout,
                         !.last_result = NoneVal, !.pc = "check"])

\* while loop.time() < deadline: lines 139, 159
TaskCheck(t) ==
    LET l == threads[t] IN
    /\ l.pc = "check"
    /\ Runs(t, [l EXCEPT !.reads = Append(@, now),
                         !.pc = IF now < l.deadline
                                   THEN (IF callee = "async_wait_until"
                                            THEN "eval" ELSE "produce")
                                   ELSE "timeout"])

\* result = condition(); if it is a coroutine, it is awaited next: 140-144
TaskEval(t) ==
    LET l == threads[t] IN
    /\ callee = "async_wait_until" /\ l.pc = "eval"
    /\ IF condAsync
          THEN Runs(t, [l EXCEPT !.pc = "await_cond"])
          ELSE \E out \in {"true", "false", "raised"} :
                  Runs(t, Concluded(l, NoneVal, out, NoneVal))

\* result = await result; if result: return -- lines 142-144
TaskAwaitCond(t) ==
    LET l == threads[t] IN
    /\ callee = "async_wait_until" /\ l.pc = "await_cond"
    /\ \E out \in {"true", "false", "raised"} :
          Runs(t, Concluded(l, NoneVal, out, NoneVal))

\* the value of fn() is there: last_result = result, or the fault propagates
Produced(l) ==
    {[l EXCEPT !.produced = Append(@, Returned(v)), !.last_result = v,
               !.pc = "test"] : v \in ConcValues}
    \cup {[l EXCEPT !.produced = Append(@, Raised(Fault("ValueError", "fn",
                                                   Len(l.produced) + 1))),
                    !.result = Raised(Fault("ValueError", "fn",
                                            Len(l.produced) + 1)),
                    !.pc = "done"]}

\* result = fn(); if it is a coroutine, it is awaited next: lines 160-163
TaskProduce(t) ==
    LET l == threads[t] IN
    /\ callee = "async_poll_until" /\ l.pc = "produce"
    /\ IF fnAsync
          THEN Runs(t, [l EXCEPT !.pc = "await_fn"])
          ELSE \E m \in Produced(l) : Runs(t, m)

\* result = await result; last_result = result -- lines 162-163
TaskAwaitFn(t) ==
    LET l == threads[t] IN
    /\ callee = "async_poll_until" /\ l.pc = "await_fn"
    /\ \E m \in Produced(l) : Runs(t, m)

\* if condition(result): return result -- lines 164-165
TaskTest(t) ==
    LET l == threads[t] IN
    /\ callee = "async_poll_until" /\ l.pc = "test"
    /\ \E out \in {IF l.last_result \in accept THEN "true" ELSE "false",
                   "raised"} :
          Runs(t, Concluded(l, l.last_result, out, l.last_result))

\* variant of TaskSleep: a blocking time.sleep(interval), which keeps the loop
TaskSleep_Blocking(t) ==
    LET l == threads[t] IN
    /\ loop.running = t /\ l.pc = "sleep"
    /\ threads' = [threads EXCEPT ![t] =
                      [l EXCEPT !.sleeps = Append(@, interval),
                                !.wake = now + interval, !.pc = "check"]]
    /\ loop' = [loop EXCEPT !.owed[t] = Elements(loop.ready)]
    /\ now' = now + interval
    /\ UNCHANGED <<aside, ticks>>

\* await asyncio.sleep(interval): the task gives the loop up and a timer is
\* set; lines 145, 166.  owed[t] are the tasks that are ready at this moment.
TaskSleep(t) ==
    LET l == threads[t] IN
    /\ loop.running = t /\ l.pc = "sleep"
    /\ threads' = [threads EXCEPT ![t] =
                      [l EXCEPT !.sleeps = Append(@, interval),
                                !.wake = now + interval, !.pc = "asleep"]]
    /\ loop' = [loop EXCEPT !.running = "none",
                            !.owed[t] = Elements(loop.ready)]
    /\ UNCHANGED <<aside, clock>>

\* the timer of task t is due, earliest first: t is ready again
LoopTimer(t) ==
    LET l == threads[t] IN
    /\ loop.running = "none"
    /\ l.pc = "asleep" /\ now >= l.wake
    /\ \A u \in Tasks : threads[u].pc = "asleep" => threads[u].wake >= l.wake
    /\ threads' = [threads EXCEPT ![t] = [l EXCEPT !.pc = "check"]]
    /\ loop' = [loop EXCEPT !.ready = Append(@, t)]
    /\ UNCHANGED <<aside, clock>>

\* nothing is ready: the loop waits in select() until the next timer is due
LoopSelect ==
    /\ loop.running = "none" /\ loop.ready = <<>>
    /\ \E t \in Tasks :
         /\ threads[t].pc = "asleep" /\ now < threads[t].wake
         /\ \A u \in Tasks :
               threads[u].pc = "asleep" => threads[u].wake >= threads[t].wake
         /\ now' = threads[t].wake
    /\ UNCHANGED <<aside, ticks, threads, loop>>

\* raise TimeoutError(...): lines 146, 167
TaskTimeout(t) ==
    LET l == threads[t] IN
    /\ l.pc = "timeout"
    /\ Runs(t, [l EXCEPT
          !.pc = "done",
          !.result = Raised(
              [kind |-> "TimeoutError", by |-> callee, at |-> Len(l.tested),
               text |-> [message |-> message, seconds |-> timeout,
                         last |-> IF callee = "async_poll_until"
                                     THEN Str(l.last_result) ELSE ""]])])

\* the clock advances while a task is running
LoopTick ==
    /\ loop.running # "none"
    /\ ticks < MaxLoopTicks
    /\ now' = now + 1 /\ ticks' = ticks + 1
    /\ UNCHANGED <<aside, threads, loop>>

LoopNext ==
    \/ LoopRunOnce
    \/ LoopSelect
    \/ LoopTick
    \/ \E t \in Tasks :
          \/ TaskStart(t) \/ TaskCheck(t) \/ TaskEval(t) \/ TaskAwaitCond(t)
          \/ TaskProduce(t) \/ TaskAwaitFn(t) \/ TaskTest(t)
          \/ TaskSleep(t) \/ LoopTimer(t) \/ TaskTimeout(t)

\* the loop runs until both tasks have ended (run_until_complete)
SpecLoop == LoopInit /\ [][LoopNext]_vars /\ WF_vars(LoopNext)

----------------------------------------------------------------------------
(* A call on its own, as a function of what its collaborators answered:    *)
(* the bodies replayed on the history of one call.                         *)

\* what a replayed wrapper call leaves behind
RetryEnd(st, last, seen, res) ==
    [attempt |-> st.attempt, current_delay |-> st.current_delay,
     last_exc |-> last, sleeps |-> st.sleeps, observed |-> seen,
     result |-> res]

\* wrapper, lines 59-76, from the loop state st on, given the outcomes outs
\* of func and the attempt obsFail at which on_retry raised (0: never)
RECURSIVE RetryReplay(_, _, _)
RetryReplay(outs, obsFail, st) ==
    LET k == st.attempt IN
    IF times < 1
       THEN RetryEnd(st, NoFault, <<>>,
                     Raised(Fault("TypeError", "wrapper", 0)))
    ELSE IF k > Len(outs)
       THEN RetryEnd(st, st.last_exc, st.observed, NoResult)
    ELSE IF outs[k].status = "returned"
       THEN RetryEnd(st, st.last_exc, st.observed, outs[k])
    ELSE IF ~Catches(exceptions, outs[k].exc.kind)
       THEN RetryEnd(st, st.last_exc, st.observed, outs[k])
    ELSE IF k = times
       THEN RetryEnd(st, outs[k].exc, st.observed, outs[k])
    ELSE LET seen == IF on_retry # "None"
                        THEN Append(st.observed, <<outs[k].exc, k>>)
                        ELSE st.observed IN
         IF on_retry # "None" /\ obsFail = k
            THEN RetryEnd(st, outs[k].exc, seen,
                          Raised(Fault("ValueError", "on_retry", k)))
            ELSE RetryReplay(outs, obsFail,
                    [attempt |-> k + 1,
                     current_delay |-> Mul(st.current_delay, backoff),
                     last_exc |-> outs[k].exc,
                     sleeps |-> Append(st.sleeps, st.current_delay),
                     observed |-> seen])

\* the loop state wrapper begins with: lines 59-61
RetryFirst ==
    [attempt |-> IF times >= 1 THEN 1 ELSE 0, current_delay |-> delay,
     last_exc |-> NoFault, sleeps |-> <<>>, observed |-> <<>>]

\* wait_until, lines 94-99, from iteration k on, on the history of call l
RECURSIVE WaitUntilRunOf(_, _)
WaitUntilRunOf(l, k) ==
    IF k > Len(l.reads) THEN RunOpen(k)
    ELSE IF ~(l.reads[k] < l.start + timeout)
        THEN RunEnd(k - 1, k - 1, "raised", NoneVal, "TimeoutError")
    ELSE IF k > Len(l.tested) THEN RunOpen(k)
    ELSE CASE l.tested[k].out = "true" ->
                 RunEnd(k, k - 1, "returned", NoneVal, "None")
           [] l.tested[k].out = "raised" ->
                 RunEnd(k, k - 1, "raised", NoneVal, "ValueError")
           [] l.tested[k].out = "false" -> WaitUntilRunOf(l, k + 1)
           [] OTHER -> RunOpen(k)

\* poll_until, lines 121-128, from iteration k on, on the history of call l
RECURSIVE PollUntilRunOf(_, _)
PollUntilRunOf(l, k) ==
    IF k > Len(l.reads) THEN RunOpen(k)
    ELSE IF ~(l.reads[k] < l.start + timeout)
        THEN RunEnd(k - 1, k - 1, "raised", NoneVal, "TimeoutError")
    ELSE IF k > Len(l.produced) THEN RunOpen(k)
    ELSE IF l.produced[k].status = "raised"
        THEN RunEnd(k - 1, k - 1, "raised", NoneVal, l.produced[k].exc.kind)
    ELSE IF k > Len(l.tested) THEN RunOpen(k)
    ELSE CASE l.tested[k].out = "true" ->
                 RunEnd(k, k - 1, "returned", l.produced[k].value, "None")
           [] l.tested[k].out = "raised" ->
                 RunEnd(k, k - 1, "raised", NoneVal, "ValueError")
           [] l.tested[k].out = "false" -> PollUntilRunOf(l, k + 1)
           [] OTHER -> RunOpen(k)

----------------------------------------------------------------------------
(* Properties of the retry decorator *)

\* attempt k of the current invocation raised a fault the except clause catches
RetryableAt(k) ==
    /\ k \in 1..Len(outcomes)
    /\ outcomes[k].status = "raised"
    /\ \E cls \in exceptions : IsSubclass(outcomes[k].exc.kind, cls)

\* attempt k raised a fault the except clause does not catch
NonRetryableAt(k) ==
    /\ k \in 1..Len(outcomes)
    /\ outcomes[k].status = "raised"
    /\ \A cls \in exceptions : ~IsSubclass(outcomes[k].exc.kind, cls)

\* attempts 1..n-1 raised retryable faults and attempt n returned a value
FailsThenSucceeds ==
    /\ times >= 1
    /\ Len(outcomes) = times
    /\ \A k \in 1..(times - 1) : RetryableAt(k)
    /\ outcomes[times].status = "returned"

\* all n attempts raised retryable faults
FailsAlways ==
    /\ times >= 1
    /\ Len(outcomes) = times
    /\ \A k \in 1..times : RetryableAt(k)

\* the observer was invoked for attempts 1..m, with (fault of attempt k, k)
ObservedUpTo(m) ==
    IF on_retry = "None" THEN observed = <<>>
    ELSE /\ Len(observed) = m
         /\ \A k \in 1..m : observed[k] = <<outcomes[k].exc, k>>

\* C1: if the operation raises a retryable fault on attempts 1..n-1 and
\* returns v on attempt n, the wrapper returns exactly v and on_retry has
\* been invoked exactly n-1 times, with (fault of attempt k, k), k = 1..n-1.
C1_SuccessOnLastAttempt ==
    FailsThenSucceeds =>
        /\ pc = "done"
        /\ result = Returned(outcomes[times].value)
        /\ ObservedUpTo(times - 1)
        /\ Len(sleeps) = times - 1

C1_Witness ==
    /\ callee = "retry" /\ FailsThenSucceeds
    /\ times = 3 /\ on_retry = "callback"
    /\ result.status = "returned" /\ result.value = 2
    /\ Len(observed) = 2

\* C2: if the operation raises a retryable fault on all n attempts, the
\* wrapper raises the very fault of attempt n, and on_retry has been invoked
\* exactly n-1 times and never for attempt n.
C2_ExhaustedRaisesLastFault ==
    FailsAlways =>
        /\ pc \in {"raise", "done"}
        /\ pc = "done" => result = Raised(outcomes[times].exc)
        /\ pc = "done" => result.exc.at = times /\ result.exc.by = "func"
        /\ ObservedUpTo(times - 1)
        /\ \A i \in 1..Len(observed) : observed[i][2] # times

C2_Witness ==
    /\ callee = "retry" /\ FailsAlways /\ pc = "done"
    /\ times = 3 /\ on_retry = "callback"
    /\ outcomes[1].exc.kind # outcomes[3].exc.kind
    /\ result.status = "raised" /\ Len(observed) = 2

\* C3: a fault whose kind is not in the retryable set, raised at attempt k
\* (max_attempts > 1), propagates immediately: the call has ended with that
\* fault, the operation was invoked k times only, and the suspensions and
\* observer invocations are those of the k-1 earlier attempts (none for k = 1).
C3_NonRetryablePropagates ==
    \A k \in 1..Len(outcomes) :
        (times > 1 /\ NonRetryableAt(k)) =>
            /\ Len(outcomes) = k
            /\ pc = "done"
            /\ result = Raised(outcomes[k].exc)
            /\ Len(sleeps) = k - 1
            /\ ObservedUpTo(k - 1)

C3_Witness ==
    /\ callee = "retry" /\ times = 3 /\ on_retry = "callback"
    /\ Len(outcomes) = 2 /\ NonRetryableAt(2)
    /\ pc = "done" /\ Len(sleeps) = 1

\* C4: when every attempt fails with a retryable fault, the suspension
\* between attempt k and k+1 lasts base_delay * backoff_factor^(k-1),
\* k = 1..max_attempts-1; base 1, factor 2, 4 attempts give 1, 2, 4; factor 1
\* gives base_delay every time.
C4_BackoffGeometry ==
    callee = "retry" =>
        /\ \A k \in 1..Len(sleeps) :
              RatEq(sleeps[k], Mul(delay, RatPow(backoff, k - 1)))
        /\ (FailsAlways /\ pc = "done") =>
              /\ Len(sleeps) = times - 1
              /\ (times = 4 /\ delay = Rat(1) /\ backoff = Rat(2)) =>
                    sleeps = <<Rat(1), Rat(2), Rat(4)>>
              /\ backoff = Rat(1) =>
                    \A k \in 1..Len(sleeps) : sleeps[k] = delay

C4_Witness ==
    /\ callee = "retry" /\ FailsAlways /\ pc = "done"
    /\ times = 4 /\ delay = Rat(1) /\ backoff = Rat(2)
    /\ Len(sleeps) = 3

\* C5: with max_attempts = 1 the wrapper is a bare call: one invocation, no
\* suspension, no observer invocation; a returned value is returned and a
\* raised fault, retryable or not, is propagated.
C5_SingleAttemptIsBareCall ==
    (callee = "retry" /\ times = 1) =>
        /\ Len(outcomes) <= 1
        /\ sleeps = <<>>
        /\ observed = <<>>
        /\ pc # "sleep" /\ pc # "observe"
        /\ pc = "done" => Len(outcomes) = 1 /\ result = outcomes[1]

C5_Witness ==
    /\ callee = "retry" /\ times = 1 /\ pc = "done"
    /\ RetryableAt(1) /\ result.status = "raised"

\* the call ended by propagating the fault of attempt k
EscapedAt(k) == pc = "done" /\ result = Raised(outcomes[k].exc)

\* C6 (as stated): with the default retryable set no kind of fault raised
\* on a non-final attempt escapes the retry loop.
C6_DefaultCatchesEveryFault ==
    (callee = "retry" /\ exceptions = DefaultExceptions) =>
        \A k \in 1..Len(outcomes) :
            (k < times /\ outcomes[k].status = "raised") => ~EscapedAt(k)

\* C6 (amended): with the default retryable set a fault raised on a
\* non-final attempt is retried exactly when its class derives from
\* Exception; KeyboardInterrupt and the other BaseException-only classes
\* propagate at once.
C6_DefaultCatchesExceptionSubclasses ==
    (callee = "retry" /\ exceptions = DefaultExceptions) =>
        \A k \in 1..Len(outcomes) :
            (k < times /\ outcomes[k].status = "raised") =>
                (EscapedAt(k) <=> outcomes[k].exc.kind \in BaseOnlyClasses)

C6_Witness ==
    /\ callee = "retry" /\ exceptions = DefaultExceptions
    /\ times = 3 /\ Len(outcomes) = 2
    /\ outcomes[1].status = "raised" /\ outcomes[1].exc.kind = "ValueError"
    /\ outcomes[2].status = "raised"
    /\ outcomes[2].exc.kind = "KeyboardInterrupt"
    /\ EscapedAt(2)

----------------------------------------------------------------------------
(* Properties of wait_until and poll_until *)

\* the call has failed with the TimeoutError of the primitive itself
TimedOut ==
    /\ pc = "done"
    /\ result.status = "raised"
    /\ result.exc.kind = "TimeoutError"
    /\ result.exc.by = callee

\* ceil(a / b) and floor(a / b) for b > 0
CeilDiv(a, b)  == (a + b - 1) \div b
FloorDiv(a, b) == a \div b

\* C7: wait_until returns at the first evaluation at which the predicate is
\* true: that evaluation is the last one, all earlier ones were false, and
\* the suspensions of the call are exactly one per earlier evaluation (none
\* when the predicate is true at once).
C7_WaitUntilReturnsAtFirstTrue ==
    callee = "wait_until" =>
        \A k \in 1..Len(tested) :
            tested[k].out = "true" =>
                /\ k = Len(tested)
                /\ pc = "done"
                /\ result = Returned(NoneVal)
                /\ \A j \in 1..(k - 1) : tested[j].out = "false"
                /\ Len(sleeps) = k - 1

C7_Witness ==
    /\ callee = "wait_until" /\ pc = "done"
    /\ Len(tested) = 3 /\ tested[3].out = "true"
    /\ Len(sleeps) = 2 /\ result.status = "returned"

C9_EvaluatedAtLeastOnce ==
    (callee \in Waits \cup Polls /\ (pc = "timeout" \/ TimedOut)) =>
        /\ Len(tested) >= 1
        /\ callee \in Polls => Len(produced) >= 1

\* C10: wait_until and poll_until never fail with Timeout before the
\* deadline: the deadline is start + timeout from the moment it is computed
\* and never changes during the call, and when Timeout is raised the clock
\* has advanced by at least timeout since the call began.
C10_NoTimeoutBeforeDeadline ==
    /\ [](callee \in {"wait_until", "poll_until"} =>
            /\ pc # "idle" => deadline = start + timeout
            /\ (pc = "timeout" \/ TimedOut) =>
                  now >= deadline /\ now - start >= timeout)
    /\ [][(callee \in {"wait_until", "poll_until"} /\ pc # "idle") =>
            (deadline' = deadline /\ start' = start /\ now' >= now)]_vars

C10_Witness ==
    /\ callee = "wait_until" /\ ~simulated /\ TimedOut
    /\ start = 1 /\ timeout = 3 /\ interval = 2
    /\ now - start > timeout

----------------------------------------------------------------------------
(* Properties of the TimeoutError and of the faults of the collaborators *)

\* the time that had passed when the loop test found the deadline reached
ElapsedAtTimeout == reads[Len(reads)] - start

\* C11 (as stated): the Timeout fault of wait_until carries the caller's
\* message and the time that elapsed since the call began.
C11_TimeoutCarriesElapsed ==
    (callee = "wait_until" /\ TimedOut) =>
        /\ result.exc.text.message = message
        /\ result.exc.text.seconds = ElapsedAtTimeout

\* C11 (amended): the Timeout fault of wait_until carries the caller's
\* message and the configured timeout; the time that actually elapsed is at
\* least that and is not reported.
C11_TimeoutCarriesConfiguredTimeout ==
    (callee = "wait_until" /\ TimedOut) =>
        /\ result.exc.text.message = message
        /\ result.exc.text.seconds = timeout
        /\ result.exc.text.seconds <= ElapsedAtTimeout
        /\ result.exc.text.last = ""

C11_Witness ==
    /\ callee = "wait_until" /\ TimedOut
    /\ message = "job not complete"
    /\ timeout = 3 /\ ElapsedAtTimeout = 4
    /\ result.exc.text.seconds = 3

\* no condition call of the current invocation has raised
NoConditionFault == \A k \in 1..Len(tested) : tested[k].out # "raised"

\* the producer has returned 1, 2, 3, ... so far, without a fault
ProducesCounting == \A k \in 1..Len(produced) : produced[k] = Returned(k)

\* C12: poll_until returns the first produced value that satisfies the
\* predicate, after as many producer calls as its position in the producer's
\* output and one suspension per earlier value; producer 1, 2, 3 with
\* condition value == 3 and 2 * interval < timeout (simulated clock) returns
\* 3 after exactly 3 producer calls and 2 suspensions.
C12_PollUntilReturnsFirstSatisfying ==
    callee = "poll_until" =>
        /\ \A k \in 1..Len(tested) :
              tested[k].out = "true" =>
                  /\ k = Len(tested) /\ k = Len(produced)
                  /\ pc = "done"
                  /\ result = Returned(produced[k].value)
                  /\ produced[k].value \in accept
                  /\ \A j \in 1..(k - 1) : produced[j].value \notin accept
                  /\ Len(sleeps) = k - 1
        /\ (/\ simulated /\ 2 * interval < timeout /\ accept = {3}
            /\ ProducesCounting /\ NoConditionFault
            /\ pc \in {"timeout", "done"}) =>
                  /\ Len(produced) = 3
                  /\ result = Returned(3)
                  /\ Len(sleeps) = 2

C12_Witness ==
    /\ callee = "poll_until" /\ simulated /\ accept = {3}
    /\ timeout = 3 /\ interval = 1
    /\ produced = <<Returned(1), Returned(2), Returned(3)>>
    /\ result = Returned(3) /\ Len(sleeps) = 2

\* C13: when poll_until or async_poll_until fails with Timeout, the last
\* value attached to the fault is the rendering of the value the final
\* producer call returned, and of no other value.
C13_TimeoutCarriesLastProduced ==
    (callee \in Polls /\ TimedOut /\ Len(produced) >= 1) =>
        LET final == produced[Len(produced)] IN
        /\ final.status = "returned"
        /\ result.exc.text.last = Str(final.value)
        /\ \A v \in Values \cup {NoneVal} :
              Str(v) = result.exc.text.last => v = final.value

C13_Witness ==
    /\ callee = "async_poll_until" /\ fnAsync /\ TimedOut
    /\ Len(produced) = 2
    /\ produced[1].value = 2 /\ produced[2].value = 1
    /\ result.exc.text.last = "1"

\* C14: a fault raised by the predicate or the producer of a polling
\* primitive propagates at that iteration: it ends the call as it is, it is
\* the last evaluation, no suspension follows it, and it is no Timeout.
C14_CollaboratorFaultPropagates ==
    callee \in Waits \cup Polls =>
        /\ \A k \in 1..Len(tested) :
              tested[k].out = "raised" =>
                  /\ k = Len(tested)
                  /\ pc = "done"
                  /\ result = Raised(Fault("ValueError", "condition", k))
                  /\ Len(sleeps) = k - 1
                  /\ callee \in Polls => Len(produced) = k
        /\ \A k \in 1..Len(produced) :
              produced[k].status = "raised" =>
                  /\ k = Len(produced)
                  /\ pc = "done"
                  /\ result = produced[k]
                  /\ result.exc.kind # "TimeoutError"
                  /\ Len(tested) = k - 1
                  /\ Len(sleeps) = k - 1

C14_Witness ==
    /\ callee = "async_wait_until" /\ condAsync /\ pc = "done"
    /\ Len(tested) = 2 /\ tested[2].out = "raised"
    /\ result.exc.by = "condition" /\ Len(sleeps) = 1

----------------------------------------------------------------------------
(* Properties of the asyncio variants *)

\* C15: when the task of async_wait_until / async_poll_until is cancelled
\* while it is suspended, the cancellation propagates: the call ends with
\* CancelledError, neither with Timeout nor with a normal return, and no
\* predicate or producer evaluation and no suspension follows.
C15_CancellationPropagates ==
    /\ [](cancelled =>
            /\ callee \in Asyncs
            /\ pc = "done"
            /\ result.status = "raised"
            /\ result.exc.kind = "CancelledError")
    /\ [][cancelled' =>
            (cancelled \/ (pc \in {"sleep", "await_cond", "await_fn"}
                           /\ UNCHANGED <<tested, produced, sleeps>>))]_vars
    /\ [][cancelled => UNCHANGED <<tested, produced, sleeps, result>>]_vars

C15_Witness ==
    /\ callee = "async_poll_until" /\ cancelled /\ pc = "done"
    /\ Len(tested) = 2 /\ tested[2].out = "false" /\ Len(sleeps) = 1
    /\ result.exc.kind = "CancelledError"

\* C16: in async_poll_until an asynchronous predicate-over-value is awaited
\* before the boolean test: a value is returned only if the predicate's
\* completed result for it is true.
C16_AsyncPredicateAwaited ==
    (callee = "async_poll_until" /\ condAsync
       /\ result.status = "returned") =>
        result.value \in accept

\* what the call did, in the shape of a replayed run
ActualRun ==
    RunEnd(Len(tested), Len(sleeps), result.status, result.value,
           result.exc.kind)

\* C17: async_wait_until with an asynchronous predicate and
\* async_poll_until with an asynchronous producer end as wait_until and
\* poll_until do on the same clock readings and the same sequence of
\* (awaited) outcomes: same number of evaluations, same outcome.
C17_AsyncMatchesSync ==
    (pc = "done" /\ ~cancelled) =>
        /\ callee \in Waits => ActualRun = WaitUntilRun(1)
        /\ (callee \in Polls /\ ~condAsync) => ActualRun = PollUntilRun(1)

C17_Witness ==
    /\ callee = "async_poll_until" /\ fnAsync /\ ~condAsync
    /\ pc = "done" /\ ~simulated
    /\ Len(produced) = 3 /\ result = Returned(3)

----------------------------------------------------------------------------
(* Properties of concurrent calls *)

\* the attempt at which on_retry raised in the call with locals l (0: never)
ObsFailOf(l) == IF l.result.exc.by = "on_retry" THEN l.result.exc.at ELSE 0

\* the finished wrapper call with locals l ended as it does on its own
RetryAsAlone(l) ==
    [attempt |-> l.attempt, current_delay |-> l.current_delay,
     last_exc |-> l.last_exc, sleeps |-> l.sleeps, observed |-> l.observed,
     result |-> l.result]
        = RetryReplay(l.outcomes, ObsFailOf(l), RetryFirst)

\* the finished polling call with locals l ended as it does on its own
PollAsAlone(l) ==
    /\ l.deadline = l.start + timeout
    /\ RunEnd(Len(l.tested), Len(l.sleeps), l.result.status, l.result.value,
              l.result.exc.kind)
          = (IF callee = "wait_until" THEN WaitUntilRunOf(l, 1)
                                      ELSE PollUntilRunOf(l, 1))
    /\ l.last_result =
          (IF \E k \in 1..Len(l.produced) : l.produced[k].status = "returned"
              THEN l.produced[CHOOSE k \in 1..Len(l.produced) :
                                 /\ l.produced[k].status = "returned"
                                 /\ \A j \in (k + 1)..Len(l.produced) :
                                       l.produced[j].status # "returned"].value
              ELSE NoneVal)

\* the locals of the other threads stay as they are
OthersUntouched(t) == \A u \in Threads \ {t} : threads'[u] = threads[u]

\* C18: concurrent invocations of the retry wrapper, wait_until and
\* poll_until share no mutable state: under every interleaving each call's
\* attempt count, current delay, deadline, last result and outcome are those
\* of the call run alone on the same answers of its collaborators; a step of
\* one call changes neither the other call's locals nor the configuration.
C18_ConcurrentCallsIndependent ==
    /\ [](\A t \in Threads :
            threads[t].pc = "done" =>
               IF callee = "retry" THEN RetryAsAlone(threads[t])
                                   ELSE PollAsAlone(threads[t]))
    /\ [][/\ \E t \in Threads : OthersUntouched(t)
          /\ UNCHANGED <<retryCfg, pollCfg>>]_vars

C18_Witness ==
    /\ callee = "retry" /\ times = 2 /\ backoff = Rat(2)
    /\ threads["t1"].pc = "call" /\ threads["t1"].attempt = 2
    /\ threads["t1"].current_delay = Mul(delay, backoff)
    /\ threads["t2"].pc = "sleep" /\ threads["t2"].attempt = 1
    /\ threads["t2"].current_delay = delay

----------------------------------------------------------------------------
(* Properties of the HTTP client *)

\* C19: an ApiClient constructed with default arguments raises from
\* get/post/put/patch/delete and their async counterparts whenever the
\* response status is 5xx; configuration can switch this off.
C19_DefaultRaisesOn5xx ==
    (/\ callee \in {"_request", "_arequest"}
     /\ raise_on_error_arg = "omitted"
     /\ pc = "done"
     /\ status_code \in 500..599)
        => result.status = "raised"

----------------------------------------------------------------------------
(* The order of the steps between two attempts *)

\* attempt k of the wrapper failed with a fault the wrapper retries
RetriedAt(k) ==
    /\ k < times /\ k <= Len(outcomes)
    /\ RetryableAt(k)

\* where the wrapper stands between attempt k and attempt k + 1
C20_Positions ==
    callee = "retry" =>
       /\ pc = "observe" =>
             /\ on_retry # "None" /\ RetriedAt(attempt)
             /\ Len(outcomes) = attempt
             /\ Len(observed) = attempt - 1 /\ Len(sleeps) = attempt - 1
       /\ pc = "sleep" =>
             /\ RetriedAt(attempt)
             /\ Len(outcomes) = attempt /\ Len(sleeps) = attempt - 1
             /\ IF on_retry # "None"
                   THEN /\ Len(observed) = attempt
                        /\ observed[attempt] = <<outcomes[attempt].exc, attempt>>
                   ELSE observed = <<>>
       /\ pc = "call" =>
             /\ Len(outcomes) = attempt - 1 /\ Len(sleeps) = attempt - 1
             /\ Len(observed) = IF on_retry # "None" THEN attempt - 1 ELSE 0
             /\ \A k \in 1..(attempt - 1) : RetriedAt(k)

\* the steps taken from those positions
C20_Steps ==
    callee = "retry" =>
       /\ (pc = "call" /\ pc' # "call" /\ pc' # "done" /\ attempt < times) =>
             /\ pc' = IF on_retry # "None" THEN "observe" ELSE "sleep"
             /\ UNCHANGED <<attempt, current_delay, sleeps, observed>>
       /\ (pc = "observe" /\ pc' # "observe") =>
             /\ observed' = Append(observed, <<outcomes[attempt].exc, attempt>>)
             /\ pc' \in {"sleep", "done"}
             /\ pc' = "done" => result'.exc.by = "on_retry"
             /\ UNCHANGED <<attempt, current_delay, sleeps, outcomes>>
       /\ (pc = "sleep" /\ pc' # "sleep") =>
             /\ sleeps' = Append(sleeps, current_delay)
             /\ current_delay' = Mul(current_delay, backoff)
             /\ attempt' = attempt + 1 /\ pc' = "call"
             /\ UNCHANGED <<observed, outcomes>>

\* C20: on a retryable fault at attempt k < times the wrapper calls
\* on_retry(fault, k) if there is an observer, then sleeps current_delay,
\* then multiplies current_delay by backoff, then runs attempt k + 1, each
\* once and in that order: the observer for attempt k has been called before
\* the sleep that follows attempt k, and the sleep lasts the delay as it was
\* before the multiplication.  (An observer that raises ends the call.)
C20_StepsBetweenAttempts == []C20_Positions /\ [][C20_Steps]_vars

C20_Witness ==
    /\ callee = "retry" /\ on_retry # "None" /\ backoff = Rat(2)
    /\ pc = "call" /\ attempt = 3
    /\ Len(observed) = 2 /\ observed[2][2] = 2
    /\ sleeps = <<delay, Mul(delay, backoff)>>

----------------------------------------------------------------------------
(* Counting attempts and suspensions *)

\* the retryable faults on attempts before the last one, so far
RetriedCount == Cardinality({k \in 1..Len(outcomes) : RetriedAt(k)})

\* func is never invoked more than times times, nor after it returned
AttemptsBounded ==
    /\ Len(outcomes) <= times
    /\ \A k \in 1..(Len(outcomes) - 1) : outcomes[k].status = "raised"

\* the on_retry callback raised, which ended the call
ObserverRaised ==
    pc = "done" /\ result.status = "raised" /\ result.exc.by = "on_retry"

\* C21 as stated: with times >= 1, whenever the wrapper is at an attempt, at
\* its raise statement or has ended, func has been invoked at most times
\* times and never after it returned, the suspensions are as many as the
\* retryable faults on attempts before the last, and are at most times - 1.
C21_SuspensionsEqualRetryableFaults ==
    (callee = "retry" /\ times >= 1 /\ pc \in {"call", "raise", "done"}) =>
       /\ AttemptsBounded
       /\ Len(sleeps) = RetriedCount
       /\ Len(sleeps) <= times - 1

\* C21: with times >= 1, at every point func has been invoked at most times
\* times and never after it returned, there are at most times - 1
\* suspensions and none after the fault of the last attempt; the suspensions
\* are as many as the retryable faults on attempts before the last, less
\* the latest one while its observer call or suspension is pending or when
\* its observer call raised.
C21_AttemptsAndSuspensionsBounded ==
    (callee = "retry" /\ times >= 1 /\ pc # "idle") =>
       /\ AttemptsBounded
       /\ Len(sleeps) <= times - 1
       /\ Len(sleeps) =
             IF pc \in {"observe", "sleep"} \/ ObserverRaised
                THEN RetriedCount - 1
                ELSE RetriedCount
       /\ Len(outcomes) = times => pc \notin {"observe", "sleep"}

C21_Witness ==
    /\ callee = "retry" /\ times = 3 /\ pc = "done"
    /\ FailsAlways /\ Len(sleeps) = 2 /\ RetriedCount = 2

----------------------------------------------------------------------------
(* The deadline and a producer call in progress *)

\* fn() or condition(last_result) of poll_until is in progress
InIteration == callee = "poll_until" /\ pc \in {"produce", "test"}

\* the producer has completed with a value the predicate accepts, at or
\* after the deadline
CompletedLate ==
    /\ callee = "poll_until" /\ pc = "test"
    /\ now >= deadline /\ last_result \in accept

\* C22: the timeout of poll_until is looked at only between iterations and
\* never interrupts or discards a producer call in progress: the clock
\* passing the deadline during an iteration changes nothing of the call,
\* only the loop test leads to the TimeoutError, and a producer call that
\* began before the deadline and completes after it with a value the
\* predicate accepts makes poll_until return that value.
C22_TimeoutOnlyBetweenIterations ==
    /\ [][(InIteration /\ now' # now) =>
             (pc' = pc /\ UNCHANGED <<result, pollLocal>>)]_vars
    /\ [][(callee = "poll_until" /\ pc' = "timeout" /\ pc # "timeout") =>
             (pc = "check" /\ ~(now < deadline))]_vars
    /\ [][(CompletedLate /\ pc' # pc) =>
             \/ pc' = "done" /\ result' = Returned(last_result)
             \/ /\ pc' = "done" /\ result'.exc.by = "condition"
                /\ tested'[Len(tested')].out = "raised"]_vars

C22_Witness ==
    /\ callee = "poll_until" /\ pc = "done"
    /\ reads[Len(reads)] < deadline /\ now >= deadline
    /\ result = Returned(last_result) /\ last_result \in accept
    /\ Len(produced) = 2

----------------------------------------------------------------------------
(* The iterations of poll_until *)

\* the producer calls that have returned a value
Completed == {k \in 1..Len(produced) : produced[k].status = "returned"}

\* C23: in every execution of poll_until an iteration is one call of fn
\* followed by one call of condition on the value that call returned: at
\* every point the predicate calls are as many as the completed producer
\* calls or one fewer, the k-th predicate call is applied to the value of the
\* k-th producer call, and last_result is the most recent producer output.
C23_OneProducerOnePredicate ==
    callee = "poll_until" =>
       /\ Len(tested) \in {Cardinality(Completed), Cardinality(Completed) - 1}
       /\ Len(tested) = Cardinality(Completed) - 1 <=> pc = "test"
       /\ \A k \in 1..Len(tested) :
             k \in Completed /\ tested[k].arg = produced[k].value
       /\ last_result = IF Completed = {} THEN NoneVal
                        ELSE produced[Cardinality(Completed)].value
       /\ \A k \in 1..Len(produced) : k \notin Completed => k = Len(produced)

C23_Witness ==
    /\ callee = "poll_until" /\ pc = "test"
    /\ Len(produced) = 3 /\ Len(tested) = 2
    /\ produced[2].value # produced[3].value
    /\ last_result = produced[3].value

----------------------------------------------------------------------------
(* One call of the decorated function after another *)

\* a call of the decorated function begins
Entered == callee = "retry" /\ inv' = inv + 1

\* C24: a later call of the same decorated function starts from fresh
\* state whatever the earlier calls did: its attempts are numbered from 1
\* again, its first suspension lasts delay and not a delay an earlier call
\* had grown, and times attempts are available again; times, delay and
\* backoff (and exceptions, on_retry) are never modified by a call.
C24_FreshStateEachCall ==
    /\ [][callee = "retry" => UNCHANGED retryCfg]_vars
    /\ [][Entered =>
             /\ attempt' = (IF times >= 1 THEN 1 ELSE 0)
             /\ current_delay' = delay /\ last_exc' = NoFault
             /\ outcomes' = <<>> /\ sleeps' = <<>> /\ observed' = <<>>]_vars
    /\ [](callee = "retry" /\ inv >= 2 =>
             /\ sleeps # <<>> => sleeps[1] = delay
             /\ pc = "call" => attempt = Len(outcomes) + 1 /\ attempt <= times
             /\ (pc = "raise" /\ times >= 1) => Len(outcomes) = times)

\* the earlier call had grown its delay and used up its attempts
C24_Witness ==
    /\ callee = "retry" /\ inv = 2 /\ times = 3 /\ backoff = Rat(2)
    /\ delay = Rat(1)
    /\ earlier.attempt = 3 /\ earlier.current_delay = Rat(4)
    /\ pc = "done" /\ Len(outcomes) = 3
    /\ sleeps = <<Rat(1), Rat(2)>>

----------------------------------------------------------------------------
(* Properties of the tasks on the event loop *)

\* task t is evaluating its condition or its producer
Evaluating(t) ==
    threads[t].pc \in {"eval", "await_cond", "produce", "await_fn", "test"}

\* every task that was ready when t began its last sleep has had the loop
\* since
OwedServed == \A t \in Tasks : Evaluating(t) => loop.owed[t] = {}

\* the finished task with locals l ended as its primitive does on its own
TaskAsAlone(l) ==
    /\ l.deadline = l.start + timeout
    /\ RunEnd(Len(l.tested), Len(l.sleeps), l.result.status, l.result.value,
              l.result.exc.kind)
          = (IF callee = "async_wait_until" THEN WaitUntilRunOf(l, 1)
                                            ELSE PollUntilRunOf(l, 1))

AllTasksDone == \A t \in Tasks : threads[t].pc = "done"

\* C25: while async_wait_until / async_poll_until is suspended between two
\* iterations the loop is given up, so a task that is ready runs before the
\* primitive's next evaluation; two such tasks on one event loop interleave
\* their evaluations, each ends, and each ends with its own outcome.
C25_TasksInterleaveAndEnd ==
    /\ []OwedServed
    /\ [](\A t \in Tasks : Evaluating(t) => loop.running = t)
    /\ [](\A t \in Tasks : threads[t].pc = "done" => TaskAsAlone(threads[t]))
    /\ <>AllTasksDone

C25_Witness ==
    /\ callee = "async_wait_until" /\ AllTasksDone
    /\ threads["t1"].result.status = "returned"
    /\ Len(threads["t1"].tested) = 2
    /\ threads["t2"].result.exc.kind = "TimeoutError"
    /\ Len(threads["t2"].tested) = 2
    /\ threads["t1"].reads[1] <= threads["t2"].reads[1]
    /\ threads["t2"].reads[1] <= threads["t1"].reads[2]
    /\ threads["t1"].reads[2] <= threads["t2"].reads[2]

----------------------------------------------------------------------------
(* Termination of the blocking primitives *)

\* a call has begun and has not ended
InCall == pc \notin {"idle", "done"}

\* C26: with timeout > 0 and interval > 0, a clock that advances by the
\* interval at each suspension, and func / fn / condition that always
\* complete, every call of wait_until and poll_until ends (returns or raises
\* TimeoutError) after at most ceil(timeout / interval) iterations, and every
\* call of the retry wrapper ends after at most times invocations of func.
C26_CallsEnd ==
    /\ []((callee \in {"wait_until", "poll_until"} /\ timeout > 0) =>
             /\ Len(tested) <= CeilDiv(timeout, interval)
             /\ Len(produced) <= CeilDiv(timeout, interval)
             /\ Len(sleeps) <= CeilDiv(timeout, interval))
    /\ [](callee = "retry" =>
             Len(outcomes) <= IF times > 0 THEN times ELSE 0)
    /\ (InCall /\ (callee = "retry" \/ timeout > 0)) ~> (pc = "done")

C26_Witness ==
    /\ callee = "poll_until" /\ timeout = 3 /\ interval = 1
    /\ TimedOut /\ Len(tested) = 3 /\ Len(sleeps) = 3

----------------------------------------------------------------------------
(* The suspension after a false evaluation *)

SyncPolling == callee \in {"wait_until", "poll_until"}

\* the condition has just been found false
FoundFalse ==
    /\ Len(tested') = Len(tested) + 1
    /\ tested'[Len(tested')].out = "false"

\* C27: after every evaluation of wait_until / poll_until that finds the
\* condition false the primitive sleeps a full interval before it looks at
\* the deadline again, also when less than interval is left; so with a
\* clock that advances only during suspensions TimeoutError is raised at an
\* elapsed time e with timeout <= e < timeout + interval.
C27_FullIntervalSleep ==
    /\ [][(SyncPolling /\ FoundFalse) => pc' = "sleep"]_vars
    /\ [][(SyncPolling /\ pc = "sleep" /\ pc' # "sleep") =>
             /\ pc' = "check"
             /\ sleeps' = Append(sleeps, interval)
             /\ now' = now + interval]_vars
    /\ []((SyncPolling /\ simulated /\ TimedOut) =>
             /\ timeout <= now - start
             /\ now - start < timeout + interval
             /\ now - start = Len(sleeps) * interval)

\* the last suspension began with less than interval left
C27_Witness ==
    /\ SyncPolling /\ simulated /\ TimedOut
    /\ timeout = 3 /\ interval = 2
    /\ now - start = 4 /\ sleeps = <<2, 2>>

----------------------------------------------------------------------------
(* An observer that raises *)

\* the call ended in the on_retry call made for its latest fault
EndedInObserver ==
    /\ callee = "retry" /\ pc = "done" /\ on_retry # "None"
    /\ Len(outcomes) >= 1
    /\ Len(observed) = Len(outcomes)

\* C28: if on_retry itself raises when it is called after a retryable fault
\* at attempt k < times, the wrapper stops: the fault of on_retry reaches
\* the caller in place of the fault of func, there is no suspension for
\* attempt k and func is not invoked again.
C28_ObserverFaultPropagates ==
    /\ [](EndedInObserver =>
             /\ result.status = "raised"
             /\ result.exc.by = "on_retry" /\ result.exc.at = attempt
             /\ result.exc # outcomes[attempt].exc
             /\ attempt < times /\ RetryableAt(attempt)
             /\ Len(outcomes) = attempt /\ Len(sleeps) = attempt - 1)
    /\ [](ObserverRaised => EndedInObserver)
    /\ [][(callee = "retry" /\ pc = "observe" /\ pc' = "done") =>
             /\ result'.exc.by = "on_retry"
             /\ UNCHANGED <<sleeps, outcomes, attempt>>]_vars
    /\ [][EndedInObserver =>
             \/ UNCHANGED <<sleeps, outcomes, observed, result>>
             \/ Entered]_vars

C28_Witness ==
    /\ EndedInObserver /\ ObserverRaised
    /\ times = 3 /\ attempt = 2
    /\ Len(outcomes) = 2 /\ Len(sleeps) = 1 /\ Len(observed) = 2

----------------------------------------------------------------------------
(* A wrapper configured with no attempts *)

\* C29: with times <= 0 the wrapped function is never invoked, there is no
\* suspension and no on_retry call, and the call ends in an error, the
\* TypeError of "raise None" (last_exc was never assigned a fault), and
\* never returns a value.
C29_NoAttemptsEndsInError ==
    (callee = "retry" /\ times <= 0 /\ pc # "idle") =>
       /\ pc \in {"raise", "done"}
       /\ attempt = 0 /\ last_exc = NoFault
       /\ outcomes = <<>> /\ sleeps = <<>> /\ observed = <<>>
       /\ result.status # "returned"
       /\ pc = "done" => result = Raised(Fault("TypeError", "wrapper", 0))

C29_Witness ==
    /\ callee = "retry" /\ times < 0 /\ pc = "done"
    /\ result.exc.kind = "TypeError" /\ outcomes = <<>>

----------------------------------------------------------------------------
(* Properties of assert_unique *)

\* two items of data have equal values for key
HasEqualPair ==
    \E i, j \in 1..Len(values) : i < j /\ PyEq(values[i], values[j])

\* C30: assert_unique(data, key) raises AssertionError if and only if two
\* items of data have equal values for key: it passes when the values are
\* pairwise distinct, also when the str forms of distinct values coincide
\* (the int 1 and the str "1"), and the duplicates it reports are not empty
\* whenever it raises.
C30_RaisesIffEqualValues ==
    (callee = "assert_unique" /\ pc = "done") =>
       /\ result.status = "raised" <=> HasEqualPair
       /\ result.status = "raised" => duplicates # <<>>

====
